---- MODULE Spec2Model ----
(***************************************************************************)
(* NutriMood: the log store (StorageService, src/v6/js/app.js), the meal   *)
(* coach (CoachService, src/v6/js/services/goals.js), the V7 home screen   *)
(* streak and symptom log (src/unnamed/part_000) and the menu scanner      *)
(* (MenuScanService, src/v7/js/services/menuScan.js).                      *)
(*                                                                         *)
(* A log entry {food: {name, protein, calories}, mood: {mood}, timestamp}  *)
(* is the record [food, name, protein, calories, mood, timestamp]:         *)
(*   food      FALSE when the entry has no food record (log.food is        *)
(*             undefined), and then name = "" and protein = calories = NaN *)
(*   name      log.food?.name, "" when missing (falsy in JavaScript)       *)
(*   mood      log.mood?.mood, "" when the entry has no mood               *)
(*   timestamp the day the entry was added (days since a Sunday)           *)
(* An entry that a symptom can be linked to also has the field id.         *)
(* logs[1] is the JavaScript logs[0].                                      *)
(*                                                                         *)
(* State:                                                                  *)
(*   logs      StorageService.logs, newest first (addLog unshifts)         *)
(*   now       the current day, as new Date() sees it                      *)
(*   patterns  CoachService.patterns; the constructor's {} is the record   *)
(*             of empty lists, which generateInsights treats alike         *)
(*   insights  CoachService.insights                                       *)
(*   symptoms  SymptomsService.symptoms, newest first                      *)
(*   analysis  AnalysisService: provider, the stored choice ai_provider,   *)
(*             the providers that have an API key, the response cache in   *)
(*             insertion order, the clock in minutes and the analyze       *)
(*             calls with the place each one has reached                   *)
(*   goalsService  GoalsService: goals, the stored nutrimood_goals, and    *)
(*             the loadGoals that the constructor started                  *)
(*   achievementsService  AchievementsService: unlockedAchievements, the   *)
(*             stored nutrimood_achievements, the loadUnlocked that the    *)
(*             constructor started and the checkAchievements calls         *)
(*   ret       the result of the last call, [op, val] (and arg, the        *)
(*             argument, for the calls that take one); a store mutation    *)
(*             leaves no result behind. A call that can throw a            *)
(*             TypeError also has the field threw.                         *)
(*                                                                         *)
(* JavaScript objects used as maps (foodMoodMap, dayOfWeekMap, the counts  *)
(* of getSensitivityReport) are sequences of entries in insertion order,   *)
(* the order Object.entries gives for keys that are not array indices.     *)
(* Ratio tests such as bad / total > 0.6 are the integer comparisons       *)
(* 10 * bad > 6 * total. deleteLog takes the position of the log whose id  *)
(* it is given.                                                            *)
(*                                                                         *)
(* Text that the program searches or rewrites (menu text, the names that   *)
(* includes() compares) is a sequence of one-character strings; charsOf    *)
(* gives the characters of the food names of the model.                    *)
(***************************************************************************)
EXTENDS Integers, Sequences, FiniteSets

VARIABLES logs, now, patterns, insights, symptoms, analysis, goalsService,
          achievementsService, ret

vars == <<logs, now, patterns, insights, symptoms, analysis, goalsService,
          achievementsService, ret>>

(* the three services below the coach, which the log store never touches *)
services == <<analysis, goalsService, achievementsService>>

(* ---- bounds of the model ---- *)
MaxFoodMoodLogs == 5
MaxDeficiencyLogs == 8
MaxCoachLogs == 6
MaxPolarLogs == 6
MaxRankLogs == 7

(* ---- constants of the program ---- *)
MinLogsForInsights == 5
MinOccurrences == 3
TriggerRatioTenths == 6
SafeRatioTenths == 7
MinDaySamples == 2
TopDays == 2
RecentCount == 7
ProteinFloor == 20
ProteinTarget == 50
CaloriesFloor == 1200
CaloriesTarget == 2000

(* a nutrient value that parseInt turns into NaN (missing, or not a number) *)
NaN == -1

GoodMoods == {"Feel OK", "Good"}
BadMoods == {"Very Bad", "Bad"}

WeekdayNames == <<"Sunday", "Monday", "Tuesday", "Wednesday", "Thursday", "Friday", "Saturday">>

(* ---- JavaScript helpers ---- *)

(* parseInt(v) || 0 for the nutrient values of the model *)
parseIntOrZero(v) == IF v = NaN THEN 0 ELSE v

(* Math.round(100 * a / b) for a >= 0, b > 0: halves round up *)
roundPercent(a, b) == (200 * a + b) \div (2 * b)

(* Math.round(a / b) for a >= 0, b > 0 *)
roundDiv(a, b) == (2 * a + b) \div (2 * b)

(* date.toLocaleDateString('en-US', {weekday: 'long'}) *)
weekdayOf(ts) == WeekdayNames[(ts % 7) + 1]

(* Array.prototype.sort with a consistent comparator: a stable sort.
   before[i][j] is "compare(s[i], s[j]) < 0". *)
stableSort(s, before) ==
    LET rank(i) ==
            Cardinality({j \in 1..Len(s) : before[j][i]})
            + Cardinality({j \in 1..(i - 1) : ~before[i][j] /\ ~before[j][i]})
            + 1
    IN [k \in 1..Len(s) |-> s[CHOOSE i \in 1..Len(s) : rank(i) = k]]

(* the place of key in an object's own keys, 0 when absent *)
keyIndex(map, key) ==
    IF \E k \in 1..Len(map) : map[k].key = key
    THEN CHOOSE k \in 1..Len(map) : map[k].key = key
    ELSE 0

(* ---- StorageService ---- *)

NoResult == [op |-> "none", val |-> <<>>]

EmptyPatterns ==
    [foodMood |-> [triggers |-> <<>>, safe |-> <<>>],
     time |-> [worstDays |-> <<>>],
     deficiencies |-> <<>>]

(* new AnalysisService(): the provider is the stored choice, the cache is empty *)
NewAnalysisService(provider, keys) ==
    [provider |-> provider, stored |-> provider, keys |-> keys,
     cache |-> <<>>, clock |-> 0, calls |-> <<>>]

(* new GoalsService(storage): goals is [] and loadGoals has read the stored
   list and waits to assign it *)
NewGoalsService(stored) ==
    [goals |-> <<>>, stored |-> stored, loading |-> TRUE, loaded |-> stored,
     created |-> 0]

(* new AchievementsService(storage): unlockedAchievements is [] and
   loadUnlocked has read the stored list and waits to assign it *)
NewAchievementsService(stored) ==
    [unlockedAchievements |-> <<>>, stored |-> stored, loading |-> TRUE,
     loaded |-> stored, calls |-> <<>>]

Init ==
    /\ logs = <<>>
    /\ now = 0
    /\ patterns = EmptyPatterns
    /\ insights = <<>>
    /\ symptoms = <<>>
    /\ analysis = NewAnalysisService("groq", {})
    /\ goalsService = NewGoalsService(<<>>)
    /\ achievementsService = NewAchievementsService(<<>>)
    /\ ret = NoResult

(* addLog(entry): the new entry, stamped with the current time, goes to the front *)
AddLog(entry) ==
    /\ logs' = <<[entry EXCEPT !.timestamp = now]>> \o logs
    /\ ret' = NoResult
    /\ UNCHANGED <<now, patterns, insights, symptoms, services>>

(* deleteLog(id) with the id of the i-th log: splice(index, 1) *)
DeleteLog(i) ==
    /\ i \in 1..Len(logs)
    /\ logs' = SubSeq(logs, 1, i - 1) \o SubSeq(logs, i + 1, Len(logs))
    /\ ret' = NoResult
    /\ UNCHANGED <<now, patterns, insights, symptoms, services>>

(* clearLogs() *)
ClearLogs ==
    /\ logs' = <<>>
    /\ ret' = NoResult
    /\ UNCHANGED <<now, patterns, insights, symptoms, services>>

(* getSensitivityReport(): one pass counting, per food, the logs with a negative
   mood and the logs with a positive mood; both lists sorted by count *)
NegativeMoods == {"Very Bad", "Bad", "Uneasy", "Bloated", "Tired"}
PositiveMoods == {"Good", "Energetic", "Happy", "Feel OK"}

(* counts[foodName] = (counts[foodName] || 0) + 1 *)
countUp(counts, name) ==
    LET k == keyIndex(counts, name)
    IN IF k = 0
       THEN Append(counts, [key |-> name, count |-> 1])
       ELSE [counts EXCEPT ![k].count = @ + 1]

RECURSIVE sensitivityScan(_, _, _)
sensitivityScan(ls, triggerFoods, safeFoods) ==
    IF ls = <<>> THEN [triggerFoods |-> triggerFoods, safeFoods |-> safeFoods]
    ELSE LET log == Head(ls)
             mood == log.mood
             foodName == log.name
         IN IF mood = "" \/ foodName = ""
            THEN sensitivityScan(Tail(ls), triggerFoods, safeFoods)
            ELSE IF mood \in NegativeMoods
            THEN sensitivityScan(Tail(ls), countUp(triggerFoods, foodName), safeFoods)
            ELSE IF mood \in PositiveMoods
            THEN sensitivityScan(Tail(ls), triggerFoods, countUp(safeFoods, foodName))
            ELSE sensitivityScan(Tail(ls), triggerFoods, safeFoods)

nameAndCount(e) == [name |-> e.key, count |-> e.count]

byCountDesc(a, b) == b.count - a.count < 0

countOrder(s) == [i \in 1..Len(s) |-> [j \in 1..Len(s) |-> byCountDesc(s[i], s[j])]]

sortedByCount(counts) ==
    LET sorted == stableSort(counts, countOrder(counts))
    IN [k \in 1..Len(sorted) |-> nameAndCount(sorted[k])]

getSensitivityReport(ls) ==
    LET scan == sensitivityScan(ls, <<>>, <<>>)
    IN [triggers |-> sortedByCount(scan.triggerFoods),
        safe |-> sortedByCount(scan.safeFoods)]

GetSensitivityReport ==
    /\ ret' = [op |-> "getSensitivityReport", val |-> getSensitivityReport(logs)]
    /\ UNCHANGED <<logs, now, patterns, insights, symptoms, services>>

(* ---- CoachService ---- *)

(* foodMoodStep with total++ moved into the good/bad branches *)
foodMoodStepTotalInBranches(foodMoodMap, log) ==
    LET foodName == log.name
        mood == log.mood
        k == keyIndex(foodMoodMap, foodName)
        map == IF k = 0
               THEN Append(foodMoodMap,
                           [key |-> foodName, total |-> 0, good |-> 0, bad |-> 0,
                            moods |-> <<>>])
               ELSE foodMoodMap
        at == IF k = 0 THEN Len(map) ELSE k
    IN IF foodName = "" \/ mood = "" THEN foodMoodMap
       ELSE [map EXCEPT ![at] =
                [key |-> @.key,
                 total |-> IF mood \in GoodMoods \cup BadMoods
                           THEN @.total + 1 ELSE @.total,
                 moods |-> Append(@.moods, mood),
                 good |-> IF mood \in GoodMoods THEN @.good + 1 ELSE @.good,
                 bad |-> IF mood \notin GoodMoods /\ mood \in BadMoods
                         THEN @.bad + 1 ELSE @.bad]]

(* one step of the forEach in detectFoodMoodPatterns: logs without a food name
   or without a mood are skipped; a new food gets a zeroed entry; total and the
   moods list always grow, good or bad only for the four labelled moods *)
foodMoodStep(foodMoodMap, log) ==
    LET foodName == log.name
        mood == log.mood
        k == keyIndex(foodMoodMap, foodName)
        map == IF k = 0
               THEN Append(foodMoodMap,
                           [key |-> foodName, total |-> 0, good |-> 0, bad |-> 0,
                            moods |-> <<>>])
               ELSE foodMoodMap
        at == IF k = 0 THEN Len(map) ELSE k
    IN IF foodName = "" \/ mood = "" THEN foodMoodMap
       ELSE [map EXCEPT ![at] =
                [key |-> @.key,
                 total |-> @.total + 1,
                 moods |-> Append(@.moods, mood),
                 good |-> IF mood \in GoodMoods THEN @.good + 1 ELSE @.good,
                 bad |-> IF mood \notin GoodMoods /\ mood \in BadMoods
                         THEN @.bad + 1 ELSE @.bad]]

RECURSIVE foodMoodMapOf(_, _)
foodMoodMapOf(ls, foodMoodMap) ==
    IF ls = <<>> THEN foodMoodMap
    ELSE foodMoodMapOf(Tail(ls), foodMoodStep(foodMoodMap, Head(ls)))

(* isTrigger without the occurrence threshold *)
isTriggerAnyCount(data) ==
    data.total > 0 /\ 10 * data.bad > TriggerRatioTenths * data.total

(* data.total >= 3 && data.bad / data.total > 0.6 *)
isTrigger(data) ==
    data.total >= MinOccurrences /\ 10 * data.bad > TriggerRatioTenths * data.total

(* isSafe with 0.3 for 0.7 *)
isSafeLowRatio(data) ==
    data.total >= MinOccurrences /\ 10 * data.good > 3 * data.total

(* data.total >= 3 && data.good / data.total > 0.7 *)
isSafe(data) ==
    data.total >= MinOccurrences /\ 10 * data.good > SafeRatioTenths * data.total

triggerEntry(data) ==
    [food |-> data.key, badPercentage |-> roundPercent(data.bad, data.total),
     count |-> data.total]

safeEntry(data) ==
    [food |-> data.key, goodPercentage |-> roundPercent(data.good, data.total),
     count |-> data.total]

(* Object.entries(foodMoodMap) keeps the order in which the foods were first seen *)
detectFoodMoodPatterns(ls) ==
    LET foodMoodMap == foodMoodMapOf(ls, <<>>)
        triggerData == SelectSeq(foodMoodMap, isTrigger)
        safeData == SelectSeq(foodMoodMap, isSafe)
    IN [triggers |-> [k \in 1..Len(triggerData) |-> triggerEntry(triggerData[k])],
        safe |-> [k \in 1..Len(safeData) |-> safeEntry(safeData[k])]]

DetectFoodMoodPatterns ==
    /\ ret' = [op |-> "detectFoodMoodPatterns", val |-> detectFoodMoodPatterns(logs)]
    /\ UNCHANGED <<logs, now, patterns, insights, symptoms, services>>

(* one step of the forEach in detectTimePatterns: a log without a mood is
   skipped; the weekday's entry is created on first use. (The hour map built in
   the same loop is not part of the result.) *)
dayStep(dayOfWeekMap, log) ==
    LET day == weekdayOf(log.timestamp)
        mood == log.mood
        k == keyIndex(dayOfWeekMap, day)
        map == IF k = 0
               THEN Append(dayOfWeekMap, [key |-> day, good |-> 0, bad |-> 0, total |-> 0])
               ELSE dayOfWeekMap
        at == IF k = 0 THEN Len(map) ELSE k
    IN IF mood = "" THEN dayOfWeekMap
       ELSE [map EXCEPT ![at] =
                [key |-> @.key,
                 total |-> @.total + 1,
                 good |-> IF mood \in GoodMoods THEN @.good + 1 ELSE @.good,
                 bad |-> IF mood \in BadMoods THEN @.bad + 1 ELSE @.bad]]

RECURSIVE dayOfWeekMapOf(_, _)
dayOfWeekMapOf(ls, dayOfWeekMap) ==
    IF ls = <<>> THEN dayOfWeekMap
    ELSE dayOfWeekMapOf(Tail(ls), dayStep(dayOfWeekMap, Head(ls)))

(* a filter that one labelled log passes *)
hasAnySample(data) == data.total >= 1

hasDaySamples(data) == data.total >= MinDaySamples

(* (b.bad / b.total) - (a.bad / a.total) < 0 *)
byBadRatioDesc(a, b) == b.bad * a.total < a.bad * b.total

badRatioOrder(s) == [i \in 1..Len(s) |-> [j \in 1..Len(s) |-> byBadRatioDesc(s[i], s[j])]]

worstDayEntry(data) ==
    [day |-> data.key, badPercentage |-> roundPercent(data.bad, data.total)]

(* array.slice(0, n) *)
sliceFirst(s, n) == SubSeq(s, 1, IF Len(s) < n THEN Len(s) ELSE n)

(* array.slice(-n) *)
sliceLast(s, n) == SubSeq(s, IF Len(s) > n THEN Len(s) - n + 1 ELSE 1, Len(s))

detectTimePatterns(ls) ==
    LET dayOfWeekMap == dayOfWeekMapOf(ls, <<>>)
        qualifying == SelectSeq(dayOfWeekMap, hasDaySamples)
        sorted == stableSort(qualifying, badRatioOrder(qualifying))
        top == sliceFirst(sorted, TopDays)
    IN [worstDays |-> [k \in 1..Len(top) |-> worstDayEntry(top[k])]]

(* the forEach of detectDeficiencies: only logs with a food record count *)
RECURSIVE nutrientTotals(_, _)
nutrientTotals(ls, acc) ==
    IF ls = <<>> THEN acc
    ELSE LET log == Head(ls)
         IN nutrientTotals(Tail(ls),
                IF log.food
                THEN [totalProtein |-> acc.totalProtein + parseIntOrZero(log.protein),
                      totalCalories |-> acc.totalCalories + parseIntOrZero(log.calories),
                      count |-> acc.count + 1]
                ELSE acc)

(* averageBelow with <= for < *)
averageAtOrBelow(total, count, floor) ==
    IF count > 0 THEN total <= floor * count ELSE 0 <= floor

(* avg < floor, with avg = count > 0 ? total / count : 0 *)
averageBelow(total, count, floor) ==
    IF count > 0 THEN total < floor * count ELSE 0 < floor

(* Math.round(avg) *)
roundedAverage(total, count) == IF count > 0 THEN roundDiv(total, count) ELSE 0

recentLogsOf(ls) == sliceLast(ls, RecentCount)

detectDeficiencies(ls) ==
    LET t == nutrientTotals(recentLogsOf(ls),
                            [totalProtein |-> 0, totalCalories |-> 0, count |-> 0])
        protein == IF averageBelow(t.totalProtein, t.count, ProteinFloor)
                   THEN <<[nutrient |-> "Protein",
                           current |-> roundedAverage(t.totalProtein, t.count),
                           target |-> ProteinTarget, severity |-> "high"]>>
                   ELSE <<>>
        calories == IF averageBelow(t.totalCalories, t.count, CaloriesFloor)
                    THEN <<[nutrient |-> "Calories",
                            current |-> roundedAverage(t.totalCalories, t.count),
                            target |-> CaloriesTarget, severity |-> "medium"]>>
                    ELSE <<>>
    IN protein \o calories

DetectDeficiencies ==
    /\ ret' = [op |-> "detectDeficiencies", val |-> detectDeficiencies(logs)]
    /\ UNCHANGED <<logs, now, patterns, insights, symptoms, services>>

(* analyzePatterns(): with fewer than 5 logs it returns a message and leaves
   this.patterns as it was *)
analyzePatterns(ls, old) ==
    IF Len(ls) < MinLogsForInsights THEN old
    ELSE [foodMood |-> detectFoodMoodPatterns(ls),
          time |-> detectTimePatterns(ls),
          deficiencies |-> detectDeficiencies(ls)]

(* an insight: its type and title, and the values its message is built from *)
insight(type, title, subject, count, percentage, current, target, actionable) ==
    [type |-> type, title |-> title, subject |-> subject, count |-> count,
     percentage |-> percentage, current |-> current, target |-> target,
     actionable |-> actionable]

(* composeInsights with the deficiency warning pushed before the weekly pattern *)
composeInsightsDeficiencyEarly(p) ==
    LET trigger == p.foodMood.triggers[1]
        safe == p.foodMood.safe[1]
        worstDay == p.time.worstDays[1]
        deficiency == p.deficiencies[1]
    IN (IF Len(p.foodMood.triggers) > 0
        THEN <<insight("warning", "Trigger Food Detected", trigger.food,
                       trigger.count, trigger.badPercentage, 0, 0, TRUE)>>
        ELSE <<>>)
       \o (IF Len(p.foodMood.safe) > 0
           THEN <<insight("suggestion", "Safe Food Found", safe.food,
                          0, safe.goodPercentage, 0, 0, TRUE)>>
           ELSE <<>>)
       \o (IF Len(p.deficiencies) > 0
           THEN <<insight("warning", "Low", deficiency.nutrient, 0, 0,
                          deficiency.current, deficiency.target, TRUE)>>
           ELSE <<>>)
       \o (IF Len(p.time.worstDays) > 0
           THEN <<insight("pattern", "Weekly Pattern", worstDay.day, 0, 0, 0, 0, FALSE)>>
           ELSE <<>>)

(* the four pushes of generateInsights, each for element [0] of its list *)
composeInsights(p) ==
    LET trigger == p.foodMood.triggers[1]
        safe == p.foodMood.safe[1]
        worstDay == p.time.worstDays[1]
        deficiency == p.deficiencies[1]
    IN (IF Len(p.foodMood.triggers) > 0
        THEN <<insight("warning", "Trigger Food Detected", trigger.food,
                       trigger.count, trigger.badPercentage, 0, 0, TRUE)>>
        ELSE <<>>)
       \o (IF Len(p.foodMood.safe) > 0
           THEN <<insight("suggestion", "Safe Food Found", safe.food,
                          0, safe.goodPercentage, 0, 0, TRUE)>>
           ELSE <<>>)
       \o (IF Len(p.time.worstDays) > 0
           THEN <<insight("pattern", "Weekly Pattern", worstDay.day, 0, 0, 0, 0, FALSE)>>
           ELSE <<>>)
       \o (IF Len(p.deficiencies) > 0
           THEN <<insight("warning", "Low", deficiency.nutrient, 0, 0,
                          deficiency.current, deficiency.target, TRUE)>>
           ELSE <<>>)

(* generateInsights(): analyzePatterns, then the insights from this.patterns *)
GenerateInsights ==
    /\ patterns' = analyzePatterns(logs, patterns)
    /\ insights' = composeInsights(patterns')
    /\ ret' = [op |-> "generateInsights", val |-> insights']
    /\ UNCHANGED <<logs, now, symptoms, services>>

(* ---- the food and mood analyses, over every short list of logs ---- *)

FoodMoodInputs ==
    [food : {TRUE}, name : {"Pizza", "Salad"}, protein : {30}, calories : {1500},
     mood : {"Very Bad", "Neutral", "Feel OK", ""}, timestamp : {0}]

NextFoodMood ==
    \/ \E entry \in FoodMoodInputs : Len(logs) < MaxFoodMoodLogs /\ AddLog(entry)
    \/ ClearLogs
    \/ DetectFoodMoodPatterns
    \/ GetSensitivityReport

SpecFoodMood == Init /\ [][NextFoodMood]_vars

(* ---- trigger and safe foods side by side ---- *)

PolarInputs ==
    [food : {TRUE}, name : {"Pizza", "Salad"}, protein : {30}, calories : {1500},
     mood : {"Bad", "Good"}, timestamp : {0}]

NextPolar ==
    \/ \E entry \in PolarInputs : Len(logs) < MaxPolarLogs /\ AddLog(entry)
    \/ \E i \in 1..Len(logs) : DeleteLog(i)
    \/ DetectFoodMoodPatterns

SpecPolar == Init /\ [][NextPolar]_vars

(* ---- the ranking of several trigger or safe foods ---- *)

NextRanking ==
    \/ \E entry \in PolarInputs : Len(logs) < MaxRankLogs /\ AddLog(entry)
    \/ GenerateInsights

SpecRanking == Init /\ [][NextRanking]_vars

(* ---- the deficiency check, over the nutrient values of the logs ---- *)

LowBoth ==
    [food |-> TRUE, name |-> "Pizza", protein |-> 10, calories |-> 1000,
     mood |-> "Good", timestamp |-> 0]

HighBoth == [LowBoth EXCEPT !.protein = 30, !.calories = 1500]

(* a food record whose calories are missing *)
NoCalories == [LowBoth EXCEPT !.protein = 30, !.calories = NaN]

(* an entry without a food record *)
NoFood ==
    [food |-> FALSE, name |-> "", protein |-> NaN, calories |-> NaN,
     mood |-> "Good", timestamp |-> 0]

DeficiencyInputs == {LowBoth, HighBoth, NoCalories, NoFood}

NextDeficiency ==
    \/ \E entry \in DeficiencyInputs : Len(logs) < MaxDeficiencyLogs /\ AddLog(entry)
    \/ DetectDeficiencies

SpecDeficiency == Init /\ [][NextDeficiency]_vars

(* ---- the coach over a store that grows and shrinks ---- *)

PizzaBad ==
    [food |-> TRUE, name |-> "Pizza", protein |-> 10, calories |-> 1000,
     mood |-> "Bad", timestamp |-> 0]

SaladGood ==
    [food |-> TRUE, name |-> "Salad", protein |-> 25, calories |-> 1500,
     mood |-> "Good", timestamp |-> 0]

(* no mood chosen, and a food record without calories *)
SaladNoMood ==
    [food |-> TRUE, name |-> "Salad", protein |-> 25, calories |-> NaN,
     mood |-> "", timestamp |-> 0]

CoachInputs == {PizzaBad, SaladGood, SaladNoMood}

NextCoach ==
    \/ \E entry \in CoachInputs : Len(logs) < MaxCoachLogs /\ AddLog(entry)
    \/ \E i \in 1..Len(logs) : DeleteLog(i)
    \/ ClearLogs
    \/ GenerateInsights

SpecCoach == Init /\ [][NextCoach]_vars

(* ---- counts taken directly from the log list ---- *)

logsOf(foodName, moodSet) ==
    {i \in 1..Len(logs) : logs[i].name = foodName /\ logs[i].mood \in moodSet}

(* logs with that food name and a mood *)
occurrences(foodName) ==
    Cardinality({i \in 1..Len(logs) : logs[i].name = foodName /\ logs[i].mood # ""})
negatives(foodName) == Cardinality(logsOf(foodName, {"Very Bad", "Bad"}))
positives(foodName) == Cardinality(logsOf(foodName, {"Good", "Feel OK"}))
unlabeled(foodName) == Cardinality(logsOf(foodName, {""}))
(* logs with that food name and a mood that is neither negative nor positive *)
neutrals(foodName) ==
    Cardinality({i \in 1..Len(logs) :
                    /\ logs[i].name = foodName
                    /\ logs[i].mood \notin {"Very Bad", "Bad", "Good", "Feel OK", ""}})

foodNames == {logs[i].name : i \in 1..Len(logs)} \ {""}

foodsIn(list) == {list[k].food : k \in 1..Len(list)}

(* C1: a food is in triggers only with at least 3 occurrences and bad/total > 0.6,
   in safe only with at least 3 occurrences and good/total > 0.7; a food with
   fewer than 3 occurrences is in neither list *)
C1_Thresholds ==
    ret.op = "detectFoodMoodPatterns" =>
        /\ \A f \in foodsIn(ret.val.triggers) :
              occurrences(f) >= 3 /\ 10 * negatives(f) > 6 * occurrences(f)
        /\ \A f \in foodsIn(ret.val.safe) :
              occurrences(f) >= 3 /\ 10 * positives(f) > 7 * occurrences(f)
        /\ \A f \in foodNames :
              occurrences(f) < 3 =>
                  f \notin foodsIn(ret.val.triggers) \cup foodsIn(ret.val.safe)

(* a trigger is reported while another food, bad every time, has only 2 logs *)
C1_Witness ==
    /\ ret.op = "detectFoodMoodPatterns"
    /\ ret.val.triggers # <<>>
    /\ \E f \in foodNames : occurrences(f) = 2 /\ negatives(f) = 2

(* C2: the sensitivity report lists no food with fewer than 3 occurrences *)
C2_ReportNeedsThree ==
    ret.op = "getSensitivityReport" =>
        \A list \in {ret.val.triggers, ret.val.safe} :
            \A k \in 1..Len(list) : occurrences(list[k].name) >= 3

(* C4 as stated: a food's total counts every log of that food, the unlabeled
   ones included *)
C4_TotalCountsEveryLog ==
    ret.op = "detectFoodMoodPatterns" =>
        LET foodMoodMap == foodMoodMapOf(logs, <<>>)
        IN \A k \in 1..Len(foodMoodMap) :
              LET data == foodMoodMap[k]
              IN data.total = negatives(data.key) + positives(data.key)
                              + neutrals(data.key) + unlabeled(data.key)

(* C4 as amended: a food's total is its negative plus positive plus Neutral
   logs; unlabeled logs are counted nowhere; bad + good <= total *)
C4_TotalIsSumOfLabelled ==
    ret.op = "detectFoodMoodPatterns" =>
        LET foodMoodMap == foodMoodMapOf(logs, <<>>)
        IN \A k \in 1..Len(foodMoodMap) :
              LET data == foodMoodMap[k]
              IN /\ data.bad = negatives(data.key)
                 /\ data.good = positives(data.key)
                 /\ data.total = data.bad + data.good + neutrals(data.key)
                 /\ data.total = occurrences(data.key)
                 /\ data.bad + data.good <= data.total
                 /\ Len(data.moods) = data.total

(* a food with a negative, a Neutral and an unlabeled log *)
C4_Witness ==
    /\ ret.op = "detectFoodMoodPatterns"
    /\ \E f \in foodNames :
          /\ negatives(f) > 0 /\ neutrals(f) > 0 /\ unlabeled(f) > 0
          /\ keyIndex(foodMoodMapOf(logs, <<>>), f) > 0

(* C3: no food is both a trigger and a safe food *)
C3_Disjoint ==
    ret.op = "detectFoodMoodPatterns" =>
        foodsIn(ret.val.triggers) \cap foodsIn(ret.val.safe) = {}

(* one food is a trigger and another is safe *)
C3_Witness ==
    /\ ret.op = "detectFoodMoodPatterns"
    /\ ret.val.triggers # <<>>
    /\ ret.val.safe # <<>>

(* C5: with fewer than 5 logs in the store generateInsights returns no insight *)
C5_EmptyBelowFive ==
    (ret.op = "generateInsights" /\ Len(logs) < 5) => ret.val = <<>>

titlesOf(list) == [k \in 1..Len(list) |-> list[k].title]

only(present, title) == IF present THEN <<title>> ELSE <<>>

(* C6: with 5 or more logs the insights are, in this order, the trigger warning,
   the safe-food suggestion, the weekly pattern and the deficiency warning, each
   present exactly when its analyzer finds something in the current logs; the
   deficiency warning is for the first finding, Protein if there is one *)
C6_ComposedInOrder ==
    (ret.op = "generateInsights" /\ Len(logs) >= 5) =>
        LET foodMood == detectFoodMoodPatterns(logs)
            time == detectTimePatterns(logs)
            deficiencies == detectDeficiencies(logs)
            last == ret.val[Len(ret.val)]
        IN /\ Len(ret.val) <= 4
           /\ titlesOf(ret.val) =
                 only(foodMood.triggers # <<>>, "Trigger Food Detected")
                 \o only(foodMood.safe # <<>>, "Safe Food Found")
                 \o only(time.worstDays # <<>>, "Weekly Pattern")
                 \o only(deficiencies # <<>>, "Low")
           /\ deficiencies # <<>> =>
                 /\ last.subject = deficiencies[1].nutrient
                 /\ last.current = deficiencies[1].current
                 /\ (\E k \in 1..Len(deficiencies) : deficiencies[k].nutrient = "Protein")
                       => last.subject = "Protein"

(* all four insights at once *)
C6_Witness ==
    /\ ret.op = "generateInsights"
    /\ Len(logs) >= 5
    /\ Len(ret.val) = 4

(* C7: the trigger warning names a trigger with the highest occurrence count,
   the safe-food suggestion a safe food with the highest occurrence count *)
C7_HighestCountFirst ==
    (ret.op = "generateInsights" /\ Len(logs) >= 5) =>
        LET foodMood == detectFoodMoodPatterns(logs)
        IN \A k \in 1..Len(ret.val) :
              /\ ret.val[k].title = "Trigger Food Detected" =>
                    \A f \in foodsIn(foodMood.triggers) :
                        occurrences(ret.val[k].subject) >= occurrences(f)
              /\ ret.val[k].title = "Safe Food Found" =>
                    \A f \in foodsIn(foodMood.safe) :
                        occurrences(ret.val[k].subject) >= occurrences(f)

(* the findings for a given mean protein and mean calories, total / count each *)
findingsFor(totalProtein, totalCalories, count) ==
    only(totalProtein < 20 * count, "Protein")
    \o only(totalCalories < 1200 * count, "Calories")

RECURSIVE sumOver(_, _)
sumOver(S, val) ==
    IF S = {} THEN 0
    ELSE LET x == CHOOSE x \in S : TRUE
         IN val[x] + sumOver(S \ {x}, val)

orZero(v) == IF v < 0 THEN 0 ELSE v

(* the logs with a food record among positions S of the store *)
withFood(S) == {i \in S : logs[i].food}
proteinIn(S) == sumOver(withFood(S), [i \in withFood(S) |-> orZero(logs[i].protein)])
caloriesIn(S) == sumOver(withFood(S), [i \in withFood(S) |-> orZero(logs[i].calories)])

nutrientsOf(list) == [k \in 1..Len(list) |-> list[k].nutrient]

(* the positions detectDeficiencies averages over: the last 7 of the array *)
slicePositions == {i \in 1..Len(logs) : i > Len(logs) - 7}

(* the 7 most recently added logs: addLog puts each new log in front *)
newestPositions == {i \in 1..Len(logs) : i <= 7}

(* C8: with more than 7 logs the findings are those of the 7 most recently
   added logs *)
C8_NewestSeven ==
    (ret.op = "detectDeficiencies" /\ Len(logs) > 7) =>
        /\ Cardinality(withFood(newestPositions)) > 0 =>
              nutrientsOf(ret.val) =
                  findingsFor(proteinIn(newestPositions), caloriesIn(newestPositions),
                              Cardinality(withFood(newestPositions)))
        /\ \A k \in 1..Len(ret.val) :
              ret.val[k].nutrient = "Protein" /\ Cardinality(withFood(newestPositions)) > 0 =>
                  ret.val[k].current =
                      roundDiv(proteinIn(newestPositions),
                               Cardinality(withFood(newestPositions)))

(* C9: no finding when the averaged slice holds no log with a food record *)
C9_EmptySliceNoFinding ==
    (ret.op = "detectDeficiencies" /\ withFood(slicePositions) = {}) => ret.val = <<>>

(* C10: over a non-empty slice, a Protein finding (target 50, high) exactly when
   the mean protein is below 20, a Calories finding (target 2000, medium) exactly
   when the mean calories are below 1200, Protein first, nothing else *)
C10_Findings ==
    (ret.op = "detectDeficiencies" /\ withFood(slicePositions) # {}) =>
        /\ nutrientsOf(ret.val) =
              findingsFor(proteinIn(slicePositions), caloriesIn(slicePositions),
                          Cardinality(withFood(slicePositions)))
        /\ \A k \in 1..Len(ret.val) :
              /\ ret.val[k].nutrient = "Protein" =>
                    ret.val[k].target = 50 /\ ret.val[k].severity = "high"
              /\ ret.val[k].nutrient = "Calories" =>
                    ret.val[k].target = 2000 /\ ret.val[k].severity = "medium"

(* mean calories exactly 1200 and mean protein below 20: Protein alone *)
C10_Witness ==
    /\ ret.op = "detectDeficiencies"
    /\ withFood(slicePositions) # {}
    /\ caloriesIn(slicePositions) = 1200 * Cardinality(withFood(slicePositions))
    /\ nutrientsOf(ret.val) = <<"Protein">>


(* ---- text ---- *)

UpperCase ==
    <<"A", "B", "C", "D", "E", "F", "G", "H", "I", "J", "K", "L", "M",
      "N", "O", "P", "Q", "R", "S", "T", "U", "V", "W", "X", "Y", "Z">>

LowerCase ==
    <<"a", "b", "c", "d", "e", "f", "g", "h", "i", "j", "k", "l", "m",
      "n", "o", "p", "q", "r", "s", "t", "u", "v", "w", "x", "y", "z">>

Digits == {"0", "1", "2", "3", "4", "5", "6", "7", "8", "9"}

Whitespace == {" ", "\t", "\n"}

lowerChar(c) ==
    IF \E k \in 1..Len(UpperCase) : UpperCase[k] = c
    THEN LowerCase[CHOOSE k \in 1..Len(UpperCase) : UpperCase[k] = c]
    ELSE c

(* String.prototype.toLowerCase *)
toLowerCase(t) == [k \in 1..Len(t) |-> lowerChar(t[k])]

(* t.startsWith(needle, i - 1) *)
occursAt(t, needle, i) ==
    /\ i + Len(needle) - 1 <= Len(t)
    /\ \A k \in 1..Len(needle) : t[i + k - 1] = needle[k]

(* String.prototype.includes *)
includes(t, needle) == \E i \in 1..(Len(t) + 1) : occursAt(t, needle, i)

(* the characters of the food names of the model; a property key made
   from a missing name reads "undefined" *)
charsOf(name) ==
    CASE name = "Pizza" -> <<"P", "i", "z", "z", "a">>
      [] name = "Salad" -> <<"S", "a", "l", "a", "d">>
      [] name = "undefined" -> <<"u", "n", "d", "e", "f", "i", "n", "e", "d">>
      [] name = "" -> <<>>

(* ---- SymptomsService ---- *)

(* what is left of a call that threw a TypeError *)
Thrown == [threw |-> TRUE, val |-> <<>>]

(* linkedMealId: symptomData.linkedMealId || null *)
Null == 0

DefaultIntensity == 3

(* logSymptom(symptomData): the new symptom goes to the front; a missing
   (0) intensity becomes 3 *)
LogSymptom(symptomData) ==
    /\ symptoms' = <<[symptomType |-> symptomData.symptomType,
                      intensity |-> IF symptomData.intensity = 0
                                    THEN DefaultIntensity
                                    ELSE symptomData.intensity,
                      hoursAfterMeal |-> symptomData.hoursAfterMeal,
                      linkedMealId |-> symptomData.linkedMealId]>> \o symptoms
    /\ ret' = NoResult
    /\ UNCHANGED <<logs, now, patterns, insights, services>>

(* ---- Number: the non-negative IEEE 754 double values of the running
   means.  A value is (hi * 2^26 + lo) * 2^exp, the 53 binary digits of
   the significand in two limbs, hi from 2^26 up to (not including) 2^27
   and lo below 2^26; zero is all zeros.  Every operation rounds its
   exact result to the nearest value, ties to even.  The operations take
   whole-number second operands below 16 (factor, divisor) or below 2^14
   (addend) and values below 2^52, which counts, intensities, hours and
   their means are. ---- *)

LimbBits == 26

Limb == 2^LimbBits

Zero == [hi |-> 0, lo |-> 0, exp |-> 0]

(* the number of binary digits of h *)
bitLength(h) ==
    IF h >= 2^30 THEN 31
    ELSE CHOOSE s \in 0..30 : h < 2^s /\ (s = 0 \/ h >= 2^(s - 1))

(* the 53 digits d.hi, d.lo rounded by what follows them: d.half is the
   next digit, d.more says that a later digit is set *)
rounded(d) ==
    LET up == d.half /\ (d.more \/ d.lo % 2 = 1)
        lo1 == IF up THEN d.lo + 1 ELSE d.lo
        hi1 == IF lo1 = Limb THEN d.hi + 1 ELSE d.hi
    IN IF hi1 = 2 * Limb THEN [hi |-> Limb, lo |-> 0, exp |-> d.exp + 1]
       ELSE [hi |-> hi1, lo |-> lo1 % Limb, exp |-> d.exp]

(* the first 53 digits of (a * 2^52 + b * 2^26 + c) * 2^exp, a not 0, and
   what follows them; inexact says that digits beyond c were dropped *)
digits53(a, b, c, exp, inexact, n) ==
    IF n = LimbBits + 1
    THEN [hi |-> a, lo |-> b, exp |-> exp + LimbBits,
          half |-> c >= Limb \div 2,
          more |-> c % (Limb \div 2) # 0 \/ inexact]
    ELSE IF n > LimbBits + 1
    THEN LET s == n - (LimbBits + 1)
             tail == b % 2^s
         IN [hi |-> a \div 2^s,
             lo |-> (a % 2^s) * 2^(LimbBits - s) + b \div 2^s,
             exp |-> exp + LimbBits + s,
             half |-> tail >= 2^(s - 1),
             more |-> tail % 2^(s - 1) # 0 \/ c # 0 \/ inexact]
    ELSE LET s == (LimbBits + 1) - n
             r == LimbBits - s
             tail == c % 2^r
         IN [hi |-> a * 2^s + b \div 2^r,
             lo |-> (b % 2^r) * 2^s + c \div 2^r,
             exp |-> exp + r,
             half |-> r > 0 /\ tail >= 2^(r - 1),
             more |-> (r > 0 /\ tail % 2^(r - 1) # 0) \/ inexact]

(* l.a * 2^52 + l.b * 2^26 + l.c, times 2^l.exp, rounded to nearest,
   ties to even *)
normalise(l) ==
    LET m == IF l.a # 0 THEN l
             ELSE IF l.b # 0
             THEN [l EXCEPT !.a = l.b, !.b = l.c, !.c = 0, !.exp = l.exp - LimbBits]
             ELSE [l EXCEPT !.a = l.c, !.b = 0, !.c = 0, !.exp = l.exp - 2 * LimbBits]
    IN IF m.a = 0 THEN Zero
       ELSE rounded(digits53(m.a, m.b, m.c, m.exp, m.inexact, bitLength(m.a)))

(* the Number of a whole number *)
number(n) == normalise([a |-> 0, b |-> 0, c |-> n, exp |-> 0, inexact |-> FALSE])

(* a product by one more than the factor *)
timesNext(x, factor) ==
    IF x = Zero THEN Zero
    ELSE normalise([a |-> x.hi * (factor + 1) + (x.lo * (factor + 1)) \div Limb,
                    b |-> (x.lo * (factor + 1)) % Limb,
                    c |-> 0,
                    exp |-> x.exp - LimbBits,
                    inexact |-> FALSE])

(* x * factor *)
times(x, factor) ==
    IF x = Zero \/ factor = 0 THEN Zero
    ELSE normalise([a |-> x.hi * factor + (x.lo * factor) \div Limb,
                    b |-> (x.lo * factor) % Limb,
                    c |-> 0,
                    exp |-> x.exp - LimbBits,
                    inexact |-> FALSE])

(* x + n: n * 2^f, f the exp of x negated, is added limb by limb *)
plus(x, n) ==
    LET f == 0 - x.exp
    IN normalise(
        IF x = Zero
        THEN [a |-> 0, b |-> 0, c |-> n, exp |-> 0, inexact |-> FALSE]
        ELSE IF f <= LimbBits
        THEN LET r == LimbBits - f
                 low == x.lo + (n % 2^r) * 2^f
             IN [a |-> 0, b |-> x.hi + n \div 2^r + low \div Limb, c |-> low % Limb,
                 exp |-> x.exp, inexact |-> FALSE]
        ELSE IF f <= 2 * LimbBits
        THEN LET r == 2 * LimbBits - f
                 mid == x.hi + (n % 2^r) * 2^(LimbBits - r)
             IN [a |-> n \div 2^r + mid \div Limb, b |-> mid % Limb, c |-> x.lo,
                 exp |-> x.exp, inexact |-> FALSE]
        ELSE [a |-> n * 2^(f - 2 * LimbBits), b |-> x.hi, c |-> x.lo,
              exp |-> x.exp, inexact |-> FALSE])

(* x / divisor: long division limb by limb, one limb beyond the last *)
over(x, divisor) ==
    LET t2 == (x.hi % divisor) * Limb + x.lo
        t3 == (t2 % divisor) * Limb
    IN normalise([a |-> x.hi \div divisor, b |-> t2 \div divisor,
                  c |-> t3 \div divisor, exp |-> x.exp - LimbBits,
                  inexact |-> t3 % divisor # 0])

RECURSIVE sumOf(_)
sumOf(s) == IF s = <<>> THEN 0 ELSE Head(s) + sumOf(Tail(s))

(* a find that settles for the first log when none has the id *)
findMealOrFirst(ls, id) ==
    IF \E i \in 1..Len(ls) : ls[i].id = id
    THEN CHOOSE i \in 1..Len(ls) :
             /\ ls[i].id = id
             /\ \A j \in 1..(i - 1) : ls[j].id # id
    ELSE IF ls = <<>> THEN 0 ELSE 1

(* logs.find(log => log.id === id): the place of the first such log, 0 when none *)
findMeal(ls, id) ==
    IF \E i \in 1..Len(ls) : ls[i].id = id
    THEN CHOOSE i \in 1..Len(ls) :
             /\ ls[i].id = id
             /\ \A j \in 1..(i - 1) : ls[j].id # id
    ELSE 0

(* the property key that meal.food.name makes *)
foodKey(name) == IF name = "" THEN "undefined" ELSE name

(* one linked symptom added to correlations[symptomType][foodName] *)
correlationStep(foods, foodName, symptom) ==
    LET k == keyIndex(foods, foodName)
        fresh == [key |-> foodName, count |-> 0, intensities |-> <<>>,
                  avgIntensity |-> Zero, avgDelay |-> Zero]
        withKey == IF k = 0 THEN Append(foods, fresh) ELSE foods
        at == IF k = 0 THEN Len(withKey) ELSE k
        data == withKey[at]
        count == data.count + 1
        intensities == Append(data.intensities, symptom.intensity)
    IN [withKey EXCEPT ![at] =
            [key |-> foodName,
             count |-> count,
             intensities |-> intensities,
             avgIntensity |-> over(number(sumOf(intensities)), Len(intensities)),
             avgDelay |-> over(plus(times(data.avgDelay, count - 1),
                                    symptom.hoursAfterMeal),
                               count)]]

(* the forEach over this.symptoms; threw when meal.food is undefined *)
RECURSIVE correlationScan(_, _, _)
correlationScan(ss, ls, correlations) ==
    IF ss = <<>> THEN [threw |-> FALSE, val |-> correlations]
    ELSE LET symptom == Head(ss)
             at == findMeal(ls, symptom.linkedMealId)
         IN IF symptom.linkedMealId = Null
            THEN correlationScan(Tail(ss), ls, correlations)
            ELSE IF at = 0
            THEN correlationScan(Tail(ss), ls, correlations)
            ELSE IF ~ls[at].food
            THEN Thrown
            ELSE LET foodName == foodKey(ls[at].name)
                     k == keyIndex(correlations, symptom.symptomType)
                     withKey == IF k = 0
                                THEN Append(correlations,
                                            [key |-> symptom.symptomType, foods |-> <<>>])
                                ELSE correlations
                     t == IF k = 0 THEN Len(withKey) ELSE k
                 IN correlationScan(Tail(ss), ls,
                        [withKey EXCEPT ![t].foods =
                            correlationStep(@, foodName, symptom)])

(* ({ food, ...data }) *)
foodAndData(e) ==
    [food |-> e.key, count |-> e.count, intensities |-> e.intensities,
     avgIntensity |-> e.avgIntensity, avgDelay |-> e.avgDelay]

(* getSymptomCorrelations(): per symptom type, the foods of the linked
   meals sorted by count *)
getSymptomCorrelations(ss, ls) ==
    LET scan == correlationScan(ss, ls, <<>>)
    IN IF scan.threw THEN scan
       ELSE [threw |-> FALSE,
             val |-> [t \in 1..Len(scan.val) |->
                        LET sorted == stableSort(scan.val[t].foods,
                                                 countOrder(scan.val[t].foods))
                        IN [key |-> scan.val[t].key,
                            entries |-> [k \in 1..Len(sorted) |-> foodAndData(sorted[k])]]]]

GetSymptomCorrelations ==
    /\ ret' = LET r == getSymptomCorrelations(symptoms, logs)
              IN [op |-> "getSymptomCorrelations", threw |-> r.threw, val |-> r.val]
    /\ UNCHANGED <<logs, now, patterns, insights, symptoms, services>>

(* ---- MenuScanService ---- *)

MinTriggerCount == 2

(* confidence, in tenths: triggers.length > 0 ? 0.8 : 0.5 *)
MatchedConfidenceTenths == 8
UnmatchedConfidenceTenths == 5

commonTriggers ==
    <<<<"d", "a", "i", "r", "y">>,
      <<"g", "l", "u", "t", "e", "n">>,
      <<"l", "a", "c", "t", "o", "s", "e">>,
      <<"m", "i", "l", "k">>,
      <<"c", "h", "e", "e", "s", "e">>,
      <<"w", "h", "e", "a", "t">>>>

(* Set.prototype.add on a set kept in insertion order *)
setAdd(set, x) ==
    IF \E k \in 1..Len(set) : set[k] = x THEN set ELSE Append(set, x)

reportedAtAll(item) == item.count >= 1

(* item.count >= 2 *)
reportedOften(item) == item.count >= MinTriggerCount

(* the entries of one symptom type, in order, added when count >= 2 *)
RECURSIVE addTriggers(_, _)
addTriggers(entries, triggerFoods) ==
    IF entries = <<>> THEN triggerFoods
    ELSE LET item == Head(entries)
         IN addTriggers(Tail(entries),
                IF reportedOften(item)
                THEN setAdd(triggerFoods, toLowerCase(charsOf(item.food)))
                ELSE triggerFoods)

(* Object.values(correlations).forEach(...) *)
RECURSIVE triggerFoodsOf(_, _)
triggerFoodsOf(correlations, triggerFoods) ==
    IF correlations = <<>> THEN triggerFoods
    ELSE triggerFoodsOf(Tail(correlations),
                        addTriggers(Head(correlations).entries, triggerFoods))

(* the verdict on one menu item *)
analyzeItem(item, triggerFoods) ==
    LET itemLower == toLowerCase(item.name)
        hit(trigger) == includes(itemLower, trigger)
        personal == SelectSeq(triggerFoods, hit)
        common == SelectSeq(commonTriggers, hit)
        status == IF personal # <<>> THEN "avoid"
                  ELSE IF common # <<>> THEN "caution"
                  ELSE "safe"
        triggers == IF personal # <<>> THEN personal ELSE common
    IN [name |-> item.name,
        rawText |-> item.rawText,
        status |-> status,
        triggers |-> triggers,
        reason |-> IF triggers = <<>> THEN <<>>
                   ELSE <<status, triggers[Len(triggers)]>>,
        confidence |-> IF Len(triggers) > 0
                       THEN MatchedConfidenceTenths
                       ELSE UnmatchedConfidenceTenths]

(* _analyzeMenuItems(menuItems) *)
analyzeMenuItems(menuItems, ss, ls) ==
    LET correlations == getSymptomCorrelations(ss, ls)
        triggerFoods == triggerFoodsOf(correlations.val, <<>>)
    IN IF correlations.threw THEN Thrown
       ELSE [threw |-> FALSE,
             val |-> [k \in 1..Len(menuItems) |->
                        analyzeItem(menuItems[k], triggerFoods)]]

AnalyzeMenuItems(menuItems) ==
    /\ ret' = LET r == analyzeMenuItems(menuItems, symptoms, logs)
              IN [op |-> "_analyzeMenuItems", arg |-> menuItems,
                  threw |-> r.threw, val |-> r.val]
    /\ UNCHANGED <<logs, now, patterns, insights, symptoms, services>>

(* ---- the menu scan, over the symptoms linked to a few meals ---- *)

MaxMenuMeals == 2
MaxSymptoms == 3

MealIds == {1, 2}

MenuMeals ==
    [food : {TRUE}, name : {"Pizza", "Salad"}, protein : {30}, calories : {1500},
     mood : {"Good"}, timestamp : {0}, id : MealIds]

SymptomInputs ==
    [symptomType : {"bloating"}, intensity : {0}, hoursAfterMeal : {2},
     linkedMealId : MealIds \cup {Null}]
    \cup [symptomType : {"headache"}, intensity : {0}, hoursAfterMeal : {2},
          linkedMealId : {1}]

CheesePizza == <<"C", "h", "e", "e", "s", "e", " ", "P", "i", "z", "z", "a">>
PizzaSalad == <<"P", "I", "Z", "Z", "A", " ", "s", "a", "l", "a", "d">>
MilkAndCheese == <<"M", "i", "l", "k", " ", "&", " ", "C", "h", "e", "e", "s", "e">>
IcedTea == <<"I", "c", "e", "d", " ", "T", "e", "a">>

MenuItemInputs ==
    {<<[name |-> n, rawText |-> n]>> :
        n \in {CheesePizza, PizzaSalad, MilkAndCheese, IcedTea}}

(* addLog gives each entry an id of its own, Date.now() + Math.random():
   one that no stored meal has and no symptom names *)
freshId(id) ==
    /\ \A i \in 1..Len(logs) : logs[i].id # id
    /\ \A k \in 1..Len(symptoms) : symptoms[k].linkedMealId # id

NextMenu ==
    \/ \E entry \in MenuMeals :
          /\ Len(logs) < MaxMenuMeals
          /\ freshId(entry.id)
          /\ AddLog(entry)
    \/ \E i \in 1..Len(logs) : DeleteLog(i)
    \/ \E symptomData \in SymptomInputs :
          /\ Len(symptoms) < MaxSymptoms
          /\ LogSymptom(symptomData)
    \/ GetSymptomCorrelations
    \/ \E menuItems \in MenuItemInputs : AnalyzeMenuItems(menuItems)

SpecMenu == Init /\ [][NextMenu]_vars

(* ---- the menu verdicts, from the symptom log ---- *)

(* the symptoms linked to a meal that is still in the store *)
linkedTo(symptomType, food) ==
    {k \in 1..Len(symptoms) :
        /\ symptoms[k].symptomType = symptomType
        /\ \E i \in 1..Len(logs) :
              logs[i].id = symptoms[k].linkedMealId /\ logs[i].name = food}

symptomTypes == {symptoms[k].symptomType : k \in 1..Len(symptoms)}

(* the foods reported at least twice under one symptom type, lower-cased *)
reportedTriggers ==
    {toLowerCase(charsOf(food)) : food \in
        {f \in foodNames : \E t \in symptomTypes :
            Cardinality(linkedTo(t, f)) >= MinTriggerCount}}

allergenTerms == {commonTriggers[k] : k \in 1..Len(commonTriggers)}

matchedIn(name, terms) == {t \in terms : includes(toLowerCase(name), t)}

elementsOf(s) == {s[k] : k \in 1..Len(s)}

analyzed == ret.op = "_analyzeMenuItems" /\ ~ret.threw

(* C11: the triggers are the lower-cased foods reported at least twice under
   some symptom; an item naming a trigger is `avoid` and lists exactly the
   triggers it names; otherwise an item naming an allergen term is `caution`;
   otherwise the item is `safe` and lists nothing *)
C11_Verdicts ==
    analyzed =>
        \A k \in 1..Len(ret.val) :
            LET v == ret.val[k]
                personal == matchedIn(ret.arg[k].name, reportedTriggers)
                common == matchedIn(ret.arg[k].name, allergenTerms)
            IN /\ personal # {} =>
                    v.status = "avoid" /\ elementsOf(v.triggers) = personal
               /\ personal = {} /\ common # {} => v.status = "caution"
               /\ personal = {} /\ common = {} =>
                    v.status = "safe" /\ v.triggers = <<>>

(* an item that names a trigger and an allergen term, with a food that is
   reported twice under one symptom and once under another *)
C11_Witness ==
    /\ analyzed
    /\ ret.arg[1].name = CheesePizza
    /\ ret.val[1].status = "avoid"
    /\ ret.val[1].triggers = <<<<"p", "i", "z", "z", "a">>>>
    /\ \E t \in symptomTypes : Cardinality(linkedTo(t, "Pizza")) = 1

(* C12: the confidence of a verdict is 0.8 for `avoid` and 0.5 for `caution`
   and `safe` *)
C12_Confidence ==
    analyzed =>
        \A k \in 1..Len(ret.val) :
            ret.val[k].confidence = IF ret.val[k].status = "avoid"
                                    THEN MatchedConfidenceTenths
                                    ELSE UnmatchedConfidenceTenths

(* ---- MenuScanService._parseMenuItems ---- *)

NewLine == "\n"

MinLineLength == 5

headerWords ==
    {<<"a", "p", "p", "e", "t", "i", "z", "e", "r">>,
     <<"e", "n", "t", "r", "e", "e">>,
     <<"d", "e", "s", "s", "e", "r", "t">>,
     <<"d", "r", "i", "n", "k">>,
     <<"m", "e", "n", "u">>,
     <<"p", "r", "i", "c", "e">>}

foodKeywords ==
    {<<"b", "u", "r", "g", "e", "r">>, <<"p", "i", "z", "z", "a">>,
     <<"p", "a", "s", "t", "a">>, <<"s", "a", "l", "a", "d">>,
     <<"c", "h", "i", "c", "k", "e", "n">>, <<"b", "e", "e", "f">>,
     <<"f", "i", "s", "h">>, <<"s", "a", "n", "d", "w", "i", "c", "h">>,
     <<"s", "o", "u", "p">>, <<"r", "i", "c", "e">>,
     <<"n", "o", "o", "d", "l", "e">>, <<"s", "t", "e", "a", "k">>,
     <<"t", "a", "c", "o">>, <<"w", "r", "a", "p">>, <<"b", "o", "w", "l">>}

(* text.split('\n') *)
RECURSIVE split(_)
split(t) ==
    IF \A i \in 1..Len(t) : t[i] # NewLine THEN <<t>>
    ELSE LET i == CHOOSE k \in 1..Len(t) :
                      t[k] = NewLine /\ \A j \in 1..(k - 1) : t[j] # NewLine
         IN <<SubSeq(t, 1, i - 1)>> \o split(SubSeq(t, i + 1, Len(t)))

(* String.prototype.trim *)
trim(t) ==
    LET inked == {i \in 1..Len(t) : t[i] \notin Whitespace}
    IN IF inked = {} THEN <<>>
       ELSE SubSeq(t, CHOOSE a \in inked : \A i \in inked : a <= i,
                      CHOOSE b \in inked : \A i \in inked : i <= b)

(* a match of /\$\d+/ begins at i *)
priceAt(t, i) == i < Len(t) /\ t[i] = "$" /\ t[i + 1] \in Digits

(* pricePattern.test(t) *)
hasPrice(t) == \E i \in 1..Len(t) : priceAt(t, i)

(* /^(appetizer|entree|dessert|drink|menu|price)/i.test(t) *)
isHeader(t) == \E w \in headerWords : occursAt(toLowerCase(t), w, 1)

(* foodKeywords.test(t) *)
hasFoodKeyword(t) == \E w \in foodKeywords : includes(toLowerCase(t), w)

(* t.replace(/\$\d+/, ''): the first match, with all its digits, removed *)
replacePrice(t) ==
    IF ~hasPrice(t) THEN t
    ELSE LET i == CHOOSE k \in 1..Len(t) :
                      priceAt(t, k) /\ \A j \in 1..(k - 1) : ~priceAt(t, j)
             end == CHOOSE e \in (i + 1)..Len(t) :
                        /\ \A j \in (i + 1)..e : t[j] \in Digits
                        /\ e = Len(t) \/ t[e + 1] \notin Digits
         IN SubSeq(t, 1, i - 1) \o SubSeq(t, end + 1, Len(t))

(* the lines.forEach callback: the items after this line *)
parseLine(items, line) ==
    LET cleaned == trim(line)
    IN IF Len(cleaned) < MinLineLength THEN items
       ELSE IF isHeader(cleaned) THEN items
       ELSE IF hasPrice(cleaned) \/ hasFoodKeyword(cleaned)
       THEN Append(items, [name |-> trim(replacePrice(cleaned)), rawText |-> cleaned])
       ELSE items

RECURSIVE parseLines(_, _)
parseLines(lines, items) ==
    IF lines = <<>> THEN items
    ELSE parseLines(Tail(lines), parseLine(items, Head(lines)))

notBlank(line) == Len(trim(line)) > 0

(* _parseMenuItems(text) *)
parseMenuItems(text) == parseLines(SelectSeq(split(text), notBlank), <<>>)

ParseMenuItems(text) ==
    /\ ret' = [op |-> "_parseMenuItems", arg |-> text, val |-> parseMenuItems(text)]
    /\ UNCHANGED <<logs, now, patterns, insights, symptoms, services>>

(* ---- the menu parser, over short menu texts ---- *)

MaxMenuLines == 3

MenuLines ==
    {<<"A", "P", "P", "E", "T", "I", "Z", "E", "R", "S">>,
     <<"C", "a", "e", "s", "a", "r", " ", "S", "a", "l", "a", "d", " ", "$", "1", "2">>,
     <<"T", "h", "e", " ", "s", "o", "u", "p", " ", "o", "f", " ", "t", "h", "e", " ", "d", "a", "y">>,
     <<"X", "X">>,
     <<" ", " ">>,
     <<" ", "T", "e", "a", " ", "$", "3", " ">>,
     <<"F", "r", "i", "e", "s">>,
     <<"S", "o", "u", "p", " ", "$", "5", " ", "o", "r", " ", "$", "7">>}

parsed == ret.op = "_parseMenuItems"

(* each scan reads a text one line longer than the last *)
NextParse ==
    \E line \in MenuLines :
        LET text == IF parsed THEN ret.arg \o <<NewLine>> \o line ELSE line
        IN /\ Len(split(text)) <= MaxMenuLines
           /\ ParseMenuItems(text)

SpecParse == Init /\ [][NextParse]_vars

(* ---- the parsed menu items ---- *)

(* a line is kept: five characters or more, no section heading, and a
   price or a food keyword *)
isMenuItem(cleaned) ==
    /\ Len(cleaned) >= MinLineLength
    /\ ~isHeader(cleaned)
    /\ hasPrice(cleaned) \/ hasFoodKeyword(cleaned)

trimmedLines(text) ==
    LET lines == split(text) IN [k \in 1..Len(lines) |-> trim(lines[k])]

(* the kept lines, in input order *)
C13_KeptLines ==
    parsed =>
        LET kept == SelectSeq(trimmedLines(ret.arg), isMenuItem)
        IN /\ Len(ret.val) = Len(kept)
           /\ \A k \in 1..Len(kept) : ret.val[k].rawText = kept[k]

(* C13: the items are the trimmed lines of five characters or more that are
   no section heading and hold a price or a food keyword, in input order, and
   no returned name still holds a $ followed by digits *)
C13_ItemsWithoutPrice ==
    /\ C13_KeptLines
    /\ parsed => \A k \in 1..Len(ret.val) : ~hasPrice(ret.val[k].name)

(* ---- CoachService.predictMood ---- *)

GoodAbovePercent == 70
BadBelowPercent == 30

percentageAtOrAbove(goodCount, total, p) == total # 0 /\ 100 * goodCount >= p * total

(* goodPercentage > p, where goodPercentage = (goodCount / total) * 100 is
   NaN when total is 0, and NaN compares false *)
percentageAbove(goodCount, total, p) == total # 0 /\ 100 * goodCount > p * total

(* goodPercentage < p *)
percentageBelow(goodCount, total, p) == total # 0 /\ 100 * goodCount < p * total

(* the number of logs whose mood is one of moods *)
moodCount(ls, moods) == Cardinality({i \in 1..Len(ls) : ls[i].mood \in moods})

(* predictMood(foodName); log.food?.name.toLowerCase() throws a TypeError
   for a log that has a food record without a name *)
predictMood(ls, foodName) ==
    LET similar(log) ==
            log.food /\ includes(toLowerCase(charsOf(log.name)), toLowerCase(foodName))
        similarLogs == SelectSeq(ls, similar)
        goodCount == moodCount(similarLogs, GoodMoods)
        badCount == moodCount(similarLogs, BadMoods)
        total == goodCount + badCount
    IN IF \E i \in 1..Len(ls) : ls[i].food /\ ls[i].name = "" THEN Thrown
       ELSE IF Len(similarLogs) = 0
       THEN [threw |-> FALSE,
             val |-> [prediction |-> "unknown", confidence |-> 0, total |-> 0]]
       ELSE [threw |-> FALSE,
             val |-> [prediction |->
                          IF percentageAbove(goodCount, total, GoodAbovePercent)
                          THEN "good"
                          ELSE IF percentageBelow(goodCount, total, BadBelowPercent)
                          THEN "bad"
                          ELSE "neutral",
                      confidence |-> IF total = 0 THEN NaN
                                     ELSE roundPercent(goodCount, total),
                      total |-> total]]

PredictMood(foodName) ==
    /\ ret' = LET r == predictMood(logs, foodName)
              IN [op |-> "predictMood", arg |-> foodName,
                  threw |-> r.threw, val |-> r.val]
    /\ UNCHANGED <<logs, now, patterns, insights, symptoms, services>>

(* ---- the mood prediction, over logs of one food with a few others ---- *)

MaxPredictLogs == 12
MaxOtherLogs == 2

PizzaLogs ==
    [food : {TRUE}, name : {"Pizza"}, protein : {30}, calories : {1500},
     mood : {"Good", "Bad"}, timestamp : {0}]

OtherLogs ==
    {[food |-> TRUE, name |-> "Pizza", protein |-> 30, calories |-> 1500,
      mood |-> "Neutral", timestamp |-> 0],
     [food |-> TRUE, name |-> "Salad", protein |-> 30, calories |-> 1500,
      mood |-> "Very Bad", timestamp |-> 0]}

FoodQueries ==
    {<<"p", "i", "z", "z", "a">>, <<"A">>, <<"t", "o", "f", "u">>}

(* predictMood counts the logs and their order does not enter: the Bad logs
   of the food are added before its Good ones *)
NextPredict ==
    \/ \E entry \in PizzaLogs :
          /\ Len(logs) < MaxPredictLogs
          /\ entry.mood = "Bad" => \A i \in 1..Len(logs) : logs[i].mood # "Good"
          /\ AddLog(entry)
    \/ \E entry \in OtherLogs :
          /\ Len(logs) < MaxOtherLogs
          /\ AddLog(entry)
    \/ \E foodName \in FoodQueries : PredictMood(foodName)

SpecPredict == Init /\ [][NextPredict]_vars

(* ---- the prediction, from the logs that name the food ---- *)

predicted == ret.op = "predictMood" /\ ~ret.threw

(* the logs whose food name holds the queried name, whatever the case *)
naming(foodName) ==
    {i \in 1..Len(logs) :
        logs[i].food /\ includes(toLowerCase(charsOf(logs[i].name)), toLowerCase(foodName))}

positiveIn(S) == Cardinality({i \in S : logs[i].mood \in GoodMoods})

negativeIn(S) == Cardinality({i \in S : logs[i].mood \in BadMoods})

(* C14: no log naming the food gives `unknown` with confidence 0; otherwise
   the prediction is `good` above 70% positive among the positive and negative
   logs naming it, `bad` below 30%, and `neutral` otherwise *)
C14_Prediction ==
    predicted =>
        LET S == naming(ret.arg)
            pos == positiveIn(S)
            neg == negativeIn(S)
        IN IF S = {}
           THEN ret.val.prediction = "unknown" /\ ret.val.confidence = 0
           ELSE ret.val.prediction =
                    IF 10 * pos > 7 * (pos + neg) THEN "good"
                    ELSE IF 10 * pos < 3 * (pos + neg) THEN "bad"
                    ELSE "neutral"

(* exactly 70% positive, with a Neutral log and a log of another food left out *)
C14_Witness ==
    /\ predicted
    /\ ret.val.prediction = "neutral"
    /\ LET S == naming(ret.arg)
       IN /\ positiveIn(S) = 7
          /\ negativeIn(S) = 3
          /\ \E i \in S : logs[i].mood = "Neutral"
          /\ \E i \in 1..Len(logs) : i \notin S

(* C15: the confidence of a prediction is an integer in 0..100 *)
C15_ConfidenceDefined ==
    predicted => ret.val.confidence \in 0..100

(* ---- the clock, and StorageService.getWeeklySummary ---- *)

(* a day passes *)
Tick ==
    /\ now' = now + 1
    /\ ret' = NoResult
    /\ UNCHANGED <<logs, patterns, insights, symptoms, services>>

WeekDays == 7

inWeekStrictly(timestamp, today) == timestamp > today - WeekDays

(* new Date(log.timestamp) >= oneWeekAgo *)
inWeek(timestamp, today) == timestamp >= today - WeekDays

RECURSIVE sumCalories(_)
sumCalories(ls) ==
    IF ls = <<>> THEN 0
    ELSE parseIntOrZero(Head(ls).calories) + sumCalories(Tail(ls))

(* the weeklyLogs.forEach that fills moodCounts *)
RECURSIVE countMoods(_, _)
countMoods(ls, moodCounts) ==
    IF ls = <<>> THEN moodCounts
    ELSE countMoods(Tail(ls),
                    IF Head(ls).mood # ""
                    THEN countUp(moodCounts, Head(ls).mood)
                    ELSE moodCounts)

(* getWeeklySummary() *)
getWeeklySummary(ls, today) ==
    LET recent(log) == inWeek(log.timestamp, today)
        weeklyLogs == SelectSeq(ls, recent)
        totalCalories == sumCalories(weeklyLogs)
    IN [totalCalories |-> totalCalories,
        avgDailyCalories |-> IF Len(weeklyLogs) # 0
                             THEN roundDiv(totalCalories, WeekDays)
                             ELSE 0,
        moodCounts |-> countMoods(weeklyLogs, <<>>),
        totalEntries |-> Len(weeklyLogs)]

GetWeeklySummary ==
    /\ ret' = [op |-> "getWeeklySummary", val |-> getWeeklySummary(logs, now)]
    /\ UNCHANGED <<logs, now, patterns, insights, symptoms, services>>

(* ---- the weekly summary, over logs added on different days ---- *)

MaxWeekLogs == 3
MaxWeekDay == 8

WeekInputs ==
    {[food |-> TRUE, name |-> "Pizza", protein |-> 30, calories |-> 1500,
      mood |-> "Good", timestamp |-> 0],
     [food |-> TRUE, name |-> "Salad", protein |-> 30, calories |-> NaN,
      mood |-> "Bad", timestamp |-> 0],
     [food |-> FALSE, name |-> "", protein |-> NaN, calories |-> NaN,
      mood |-> "", timestamp |-> 0]}

NextWeek ==
    \/ \E entry \in WeekInputs :
          /\ Len(logs) < MaxWeekLogs
          /\ AddLog(entry)
    \/ now < MaxWeekDay /\ Tick
    \/ GetWeeklySummary

SpecWeek == Init /\ [][NextWeek]_vars

(* ---- the weekly summary, from the logs of the last 7 days ---- *)

(* the logs stamped no earlier than 7 days before now *)
lastWeek == {i \in 1..Len(logs) : logs[i].timestamp >= now - 7}

moodsIn(S) == {logs[i].mood : i \in S} \ {""}

(* C17: the summary is over exactly the logs with timestamp >= now - 7 days:
   the sum of their calories, that sum over 7 rounded, their count, the count
   of each of their moods; all zero and empty when there is none *)
C17_WeeklySummary ==
    ret.op = "getWeeklySummary" =>
        /\ ret.val.totalEntries = Cardinality(lastWeek)
        /\ ret.val.totalCalories = caloriesIn(lastWeek)
        /\ ret.val.avgDailyCalories = (2 * caloriesIn(lastWeek) + 7) \div 14
        /\ {ret.val.moodCounts[k].key : k \in 1..Len(ret.val.moodCounts)} = moodsIn(lastWeek)
        /\ \A k \in 1..Len(ret.val.moodCounts) :
              ret.val.moodCounts[k].count =
                  Cardinality({i \in lastWeek : logs[i].mood = ret.val.moodCounts[k].key})
        /\ lastWeek = {} =>
              ret.val = [totalCalories |-> 0, avgDailyCalories |-> 0,
                         moodCounts |-> <<>>, totalEntries |-> 0]

(* a log exactly 7 days old is counted and an older one is not, and the
   average is over 7 days though only two days have logs *)
C17_Witness ==
    /\ ret.op = "getWeeklySummary"
    /\ \E i \in 1..Len(logs) : logs[i].timestamp = now - 7 /\ logs[i].calories = 1500
    /\ \E i \in 1..Len(logs) : logs[i].timestamp < now - 7
    /\ ret.val.totalEntries = 2
    /\ ret.val.totalCalories = 3000
    /\ ret.val.avgDailyCalories = 429

(* ---- the analyzers on entries that lack a food record, a name or a mood ---- *)

DetectTimePatterns ==
    /\ ret' = [op |-> "detectTimePatterns", val |-> detectTimePatterns(logs)]
    /\ UNCHANGED <<logs, now, patterns, insights, symptoms, services>>

(* getWeeklySummary() of src/js/app.js: log.food.calories and log.mood.mood
   throw a TypeError for a log of the week without a food record or without
   a mood record *)
getWeeklySummaryV1(ls, today) ==
    LET recent(log) == inWeek(log.timestamp, today)
        weeklyLogs == SelectSeq(ls, recent)
        totalCalories == sumCalories(weeklyLogs)
    IN IF \E k \in 1..Len(weeklyLogs) : ~weeklyLogs[k].food \/ weeklyLogs[k].mood = ""
       THEN Thrown
       ELSE [threw |-> FALSE,
             val |-> [totalCalories |-> totalCalories,
                      avgCalories |-> IF Len(weeklyLogs) # 0
                                      THEN roundDiv(totalCalories, WeekDays)
                                      ELSE 0,
                      moodCounts |-> countMoods(weeklyLogs, <<>>),
                      totalEntries |-> Len(weeklyLogs)]]

GetWeeklySummaryV1 ==
    /\ ret' = LET r == getWeeklySummaryV1(logs, now)
              IN [op |-> "getWeeklySummaryV1", threw |-> r.threw, val |-> r.val]
    /\ UNCHANGED <<logs, now, patterns, insights, symptoms, services>>

MalformedInputs ==
    {[food |-> TRUE, name |-> "Pizza", protein |-> 10, calories |-> 1000,
      mood |-> "Bad", timestamp |-> 0, id |-> id] : id \in MealIds}
    \cup {[food |-> FALSE, name |-> "", protein |-> NaN, calories |-> NaN,
           mood |-> "Bad", timestamp |-> 0, id |-> id] : id \in MealIds}
    \cup {[food |-> TRUE, name |-> "", protein |-> 10, calories |-> 1000,
           mood |-> "Bad", timestamp |-> 0, id |-> id] : id \in MealIds}
    \cup {[food |-> TRUE, name |-> "Pizza", protein |-> 10, calories |-> 1000,
           mood |-> "", timestamp |-> 0, id |-> id] : id \in MealIds}

LinkedSymptoms ==
    [symptomType : {"bloating"}, intensity : {4}, hoursAfterMeal : {2},
     linkedMealId : MealIds]

NextMalformed ==
    \/ \E entry \in MalformedInputs :
          /\ Len(logs) < MaxMenuMeals
          /\ \A i \in 1..Len(logs) : logs[i].id # entry.id
          /\ AddLog(entry)
    \/ \E symptomData \in LinkedSymptoms :
          /\ Len(symptoms) < MaxSymptoms
          /\ LogSymptom(symptomData)
    \/ DetectFoodMoodPatterns
    \/ DetectTimePatterns
    \/ DetectDeficiencies
    \/ \E foodName \in FoodQueries : PredictMood(foodName)
    \/ GetWeeklySummary
    \/ GetWeeklySummaryV1
    \/ GetSymptomCorrelations

SpecMalformed == Init /\ [][NextMalformed]_vars

isComplete(log) == log.food /\ log.name # "" /\ log.mood # ""

(* the store without the entries that lack a food record, a name or a mood *)
completeLogs == SelectSeq(logs, isComplete)

(* C16: no analyzer throws on an entry that lacks a food record, a food name
   or a mood, and each returns what it returns for the list without such
   entries *)
C16_MalformedSkipped ==
    /\ ret.op = "detectFoodMoodPatterns" => ret.val = detectFoodMoodPatterns(completeLogs)
    /\ ret.op = "detectTimePatterns" => ret.val = detectTimePatterns(completeLogs)
    /\ ret.op = "detectDeficiencies" => ret.val = detectDeficiencies(completeLogs)
    /\ ret.op = "predictMood" =>
          ~ret.threw /\ ret.val = predictMood(completeLogs, ret.arg).val
    /\ ret.op = "getWeeklySummary" => ret.val = getWeeklySummary(completeLogs, now)
    /\ ret.op = "getWeeklySummaryV1" =>
          ~ret.threw /\ ret.val = getWeeklySummaryV1(completeLogs, now).val
    /\ ret.op = "getSymptomCorrelations" =>
          ~ret.threw /\ ret.val = getSymptomCorrelations(symptoms, completeLogs).val

(* ---- the calendar ---- *)

HoursPerDay == 24

(* the time zone of the browser: one without clock changes, and one in which
   the clocks are set back an hour during day FallBackDay, which is then 25
   hours long *)
TimeZones == {"UTC", "America/New_York"}

FallBackDay == 0

(* new Date(date.toDateString()): the local midnight that begins day d, in
   hours since the midnight that begins day 0 *)
midnight(zone, d) ==
    HoursPerDay * d + (IF zone = "America/New_York" /\ d > FallBackDay THEN 1 ELSE 0)

abs(x) == IF x < 0 THEN -x ELSE x

(* Math.ceil(a / b) for a >= 0, b > 0 *)
ceilDiv(a, b) == (a + b - 1) \div b

(* a list of distinct days sorted with (a, b) => new Date(b) - new Date(a):
   the days from first down to last that are in the list *)
least(S) == CHOOSE x \in S : \A y \in S : x <= y

RECURSIVE descending(_, _, _)
descending(days, first, last) ==
    IF first < last THEN <<>>
    ELSE IF first = last THEN (IF first \in days THEN <<first>> ELSE <<>>)
    ELSE LET mid == (first + last) \div 2
         IN descending(days, first, mid + 1) \o descending(days, mid, last)

greatest(S) == CHOOSE x \in S : \A y \in S : y <= x

sortedDates(days) == descending(days, greatest(days), least(days))

(* ---- StorageService.getStreak ---- *)

(* Math.ceil(Math.abs(current - prev) / (1000 * 60 * 60 * 24)) *)
diffDays(zone, current, prev) ==
    ceilDiv(abs(midnight(zone, current) - midnight(zone, prev)), HoursPerDay)

(* the for loop: the increments of streak until the break *)
consecutive(dates, zone) ==
    IF \A i \in 1..(Len(dates) - 1) : diffDays(zone, dates[i], dates[i + 1]) = 1
    THEN Len(dates) - 1
    ELSE least({i \in 1..(Len(dates) - 1) :
                   diffDays(zone, dates[i], dates[i + 1]) # 1}) - 1

(* the part of getStreak() that follows the sort *)
streakOf(dates, today, yesterday, zone) ==
    IF dates[1] = today \/ dates[1] = yesterday
    THEN 1 + consecutive(dates, zone)
    ELSE 0

(* getStreak() *)
getStreak(ls, today, zone) ==
    IF Len(ls) = 0 THEN 0
    ELSE streakOf(sortedDates({ls[i].timestamp : i \in 1..Len(ls)}),
                  today, today - 1, zone)

GetStreak(zone) ==
    /\ ret' = [op |-> "getStreak", zone |-> zone, val |-> getStreak(logs, now, zone)]
    /\ UNCHANGED <<logs, now, patterns, insights, symptoms, services>>

(* ---- NutriMoodApp.calculateStreak ---- *)

StreakHorizon == 365

(* the for loop: the increments of streak until the break, 365 at most *)
walkBack(days, today) ==
    LET gaps == {i \in 0..(StreakHorizon - 1) : today - i \notin days}
    IN IF gaps = {} THEN StreakHorizon ELSE least(gaps)

(* calculateStreak(logs) *)
calculateStreak(ls, today) ==
    IF Len(ls) = 0 THEN 0
    ELSE walkBack({ls[k].timestamp : k \in 1..Len(ls)}, today)

CalculateStreak ==
    /\ ret' = [op |-> "calculateStreak", val |-> calculateStreak(logs, now)]
    /\ UNCHANGED <<logs, now, patterns, insights, symptoms, services>>

(* ---- the streaks, over logs added on different days ---- *)

MaxStreakLogs == 4
MaxStreakDay == 4

StreakInputs ==
    {[food |-> TRUE, name |-> "Pizza", protein |-> 30, calories |-> 1500,
      mood |-> "Good", timestamp |-> 0]}

NextStreak ==
    \/ \E entry \in StreakInputs :
          /\ Len(logs) < MaxStreakLogs
          /\ AddLog(entry)
    \/ \E i \in 1..Len(logs) : DeleteLog(i)
    \/ now < MaxStreakDay /\ Tick
    \/ \E zone \in TimeZones : GetStreak(zone)
    \/ CalculateStreak

SpecStreak == Init /\ [][NextStreak]_vars

(* ---- the streak, from the days that have a log ---- *)

logged(d) == \E i \in 1..Len(logs) : logs[i].timestamp = d

(* the number of consecutive logged days that end with day d *)
runEnding(d) ==
    Cardinality({k \in 1..Len(logs) : \A j \in 0..(k - 1) : logged(d - j)})

(* the consecutive logged days counted back from today, or from yesterday
   when today has no log *)
streakToday == IF logged(now) THEN runEnding(now) ELSE runEnding(now - 1)

(* C18: getStreak returns the number of consecutive calendar days with a log,
   counted back from today, or from yesterday when today has no log *)
C18_Streak ==
    ret.op = "getStreak" => ret.val = streakToday

(* where the clocks do not change, getStreak returns that number *)
StreakWithoutClockChange ==
    ret.op = "getStreak" /\ ret.zone = "UTC" => ret.val = streakToday

(* C19: for a history whose latest log is yesterday, calculateStreak returns
   the number of consecutive logged days up to yesterday, as getStreak does *)
C19_StreakFromYesterday ==
    ret.op = "calculateStreak" /\ ~logged(now) /\ logged(now - 1) =>
        /\ ret.val = runEnding(now - 1)
        /\ ret.val = getStreak(logs, now, "UTC")

(* ---- StorageService._loadFromIndexedDB, and long histories ---- *)

(* this.logs.sort((a, b) => new Date(b.timestamp) - new Date(a.timestamp)):
   a stable sort, newest first: the logs of each day from the newest day
   down, each day's in the order they had *)
RECURSIVE byDayDescending(_, _, _)
byDayDescending(ls, first, last) ==
    IF first < last THEN <<>>
    ELSE IF first = last
    THEN LET onDay(log) == log.timestamp = first IN SelectSeq(ls, onDay)
    ELSE LET mid == (first + last) \div 2
         IN byDayDescending(ls, first, mid + 1) \o byDayDescending(ls, mid, last)

daysOf(ls) == {ls[k].timestamp : k \in 1..Len(ls)}

sortNewestFirst(ls) ==
    IF ls = <<>> THEN <<>>
    ELSE byDayDescending(ls, greatest(daysOf(ls)), least(daysOf(ls)))

(* _loadFromIndexedDB(): the stored logs, sorted by timestamp descending *)
LoadLogs(stored) ==
    /\ logs' = sortNewestFirst(stored)
    /\ ret' = NoResult
    /\ UNCHANGED <<now, patterns, insights, symptoms, services>>

MinHistoryDays == 330
MaxHistoryDays == 366

(* a history with one log on each of the last n days, as getAll() returns
   it: in the order of the ids, oldest first *)
dailyLogs(n) ==
    [k \in 1..n |->
        [food |-> TRUE, name |-> "Pizza", protein |-> 30, calories |-> 1500,
         mood |-> "Good", timestamp |-> k - n]]

(* the store is loaded once, when the application starts *)
NextHistory ==
    \/ \E n \in MinHistoryDays..MaxHistoryDays :
          /\ logs = <<>>
          /\ ret = NoResult
          /\ LoadLogs(dailyLogs(n))
    \/ \E zone \in TimeZones : GetStreak(zone)
    \/ CalculateStreak

SpecHistory == Init /\ [][NextHistory]_vars

(* C20: the streak returned by getStreak and by calculateStreak is at most 365 *)
C20_StreakCapped ==
    ret.op \in {"getStreak", "calculateStreak"} => ret.val <= 365

(* ---- the correlations, over symptoms without a stored meal ---- *)

(* the symptoms that name no meal, and those whose meal is not in the store *)
withoutMeal == {k \in 1..Len(symptoms) : symptoms[k].linkedMealId = Null}

withDeletedMeal ==
    {k \in 1..Len(symptoms) :
        /\ symptoms[k].linkedMealId # Null
        /\ \A i \in 1..Len(logs) : logs[i].id # symptoms[k].linkedMealId}

correlated == ret.op = "getSymptomCorrelations"

(* the (symptom type, food) pairs of the result *)
reportedPairs ==
    UNION {{<<ret.val[t].key, ret.val[t].entries[k].food>> :
                k \in 1..Len(ret.val[t].entries)} : t \in 1..Len(ret.val)}

(* C21: getSymptomCorrelations does not throw over symptoms that name no
   meal or a meal that is no longer stored, and they add to no entry: the
   result has an entry for exactly the (symptom type, food) pairs that a
   symptom of a stored meal makes, each counting those symptoms alone;
   and a step that deletes a meal leaves the symptom log as it was *)
C21_MissingMeals ==
    /\ [](correlated =>
            /\ ~ret.threw
            /\ reportedPairs =
                  {p \in symptomTypes \X foodNames : linkedTo(p[1], p[2]) # {}}
            /\ \A t \in 1..Len(ret.val) : \A k \in 1..Len(ret.val[t].entries) :
                  LET e == ret.val[t].entries[k]
                  IN /\ e.count = Cardinality(linkedTo(ret.val[t].key, e.food))
                     /\ Len(e.intensities) = e.count)
    /\ [][Len(logs') < Len(logs) => symptoms' = symptoms]_vars

(* a result computed with a symptom that names no meal and a symptom of a
   deleted meal in the log, next to one of a stored meal *)
C21_Witness ==
    /\ correlated
    /\ ret.val # <<>>
    /\ withoutMeal # {}
    /\ withDeletedMeal # {}

(* ---- the running means, over the symptoms of two meals ---- *)

MaxDelaySymptoms == 8
MaxOtherSymptoms == 3

DelayMeals ==
    <<[food |-> TRUE, name |-> "Pizza", protein |-> 30, calories |-> 1500,
       mood |-> "Good", timestamp |-> 0, id |-> 1],
      [food |-> TRUE, name |-> "Salad", protein |-> 30, calories |-> 1500,
       mood |-> "Good", timestamp |-> 0, id |-> 2]>>

PizzaSymptoms ==
    {[symptomType |-> "bloating", intensity |-> 1, hoursAfterMeal |-> 2,
      linkedMealId |-> 1],
     [symptomType |-> "bloating", intensity |-> 4, hoursAfterMeal |-> 5,
      linkedMealId |-> 1]}

SaladSymptoms ==
    {[symptomType |-> "bloating", intensity |-> 0, hoursAfterMeal |-> 5,
      linkedMealId |-> 2],
     [symptomType |-> "headache", intensity |-> 2, hoursAfterMeal |-> 2,
      linkedMealId |-> 2]}

(* the two meals are logged first; the symptoms of the Salad come before
   those of the Pizza *)
NextDelay ==
    \/ /\ Len(logs) < Len(DelayMeals)
       /\ AddLog(DelayMeals[Len(logs) + 1])
    \/ \E symptomData \in SaladSymptoms :
          /\ Len(logs) = Len(DelayMeals)
          /\ Len(symptoms) < MaxOtherSymptoms
          /\ \A k \in 1..Len(symptoms) : symptoms[k].linkedMealId = 2
          /\ LogSymptom(symptomData)
    \/ \E symptomData \in PizzaSymptoms :
          /\ Len(logs) = Len(DelayMeals)
          /\ Len(symptoms) < MaxDelaySymptoms
          /\ LogSymptom(symptomData)
    \/ GetSymptomCorrelations

SpecDelay == Init /\ [][NextDelay]_vars

(* ---- the correlation entries, from the symptom log ---- *)

RECURSIVE hoursOf(_)
hoursOf(S) ==
    IF S = {} THEN 0
    ELSE LET k == CHOOSE k \in S : TRUE
         IN symptoms[k].hoursAfterMeal + hoursOf(S \ {k})

RECURSIVE intensityOf(_)
intensityOf(S) ==
    IF S = {} THEN 0
    ELSE LET k == CHOOSE k \in S : TRUE
         IN symptoms[k].intensity + intensityOf(S \ {k})

(* the Number nearest to total / n *)
meanOf(total, n) == over(number(total), n)

countsDescend(entries) ==
    \A i \in 1..Len(entries) : \A j \in (i + 1)..Len(entries) :
        entries[i].count >= entries[j].count

(* by how many last places two Numbers of one exponent differ *)
lastPlacesApart(x, y) ==
    IF x.exp # y.exp \/ abs(x.hi - y.hi) > 1 THEN Limb
    ELSE abs((x.hi - y.hi) * Limb + x.lo - y.lo)

(* C22: every entry of getSymptomCorrelations has count = the number of
   the symptoms of its (symptom type, food) pair, avgIntensity = the mean
   of their intensities and avgDelay = the mean of their hoursAfterMeal,
   and the entries of each symptom type descend by count *)
C22_Means ==
    correlated =>
        \A t \in 1..Len(ret.val) :
            /\ countsDescend(ret.val[t].entries)
            /\ \A k \in 1..Len(ret.val[t].entries) :
                  LET e == ret.val[t].entries[k]
                      linked == linkedTo(ret.val[t].key, e.food)
                  IN /\ e.count = Cardinality(linked)
                     /\ e.avgIntensity = meanOf(intensityOf(linked), e.count)
                     /\ e.avgDelay = meanOf(hoursOf(linked), e.count)

(* C22, amended: count, avgIntensity and the order are as stated; avgDelay
   is the mean of hoursAfterMeal while the pair has at most 7 symptoms,
   and with more it is within 4 last places of the mean *)
C22_MeansRounded ==
    correlated =>
        \A t \in 1..Len(ret.val) :
            /\ countsDescend(ret.val[t].entries)
            /\ \A k \in 1..Len(ret.val[t].entries) :
                  LET e == ret.val[t].entries[k]
                      linked == linkedTo(ret.val[t].key, e.food)
                  IN /\ e.count = Cardinality(linked)
                     /\ e.avgIntensity = meanOf(intensityOf(linked), e.count)
                     /\ e.count <= 7 =>
                            e.avgDelay = meanOf(hoursOf(linked), e.count)
                     /\ lastPlacesApart(e.avgDelay,
                                        meanOf(hoursOf(linked), e.count)) <= 4

(* a result whose sort moved the food with more symptoms of a type to the
   front, each mean taken over several symptoms *)
C22_Witness ==
    /\ correlated
    /\ \E t \in 1..Len(ret.val) :
          /\ Len(ret.val[t].entries) = 2
          /\ ret.val[t].entries[1].food = "Salad"
          /\ ret.val[t].entries[1].count = 3
          /\ ret.val[t].entries[2].count = 2
          /\ ret.val[t].entries[2].avgDelay = meanOf(7, 2)

(* ---- the worst days, over logs of several weekdays ---- *)

MaxDayLogs == 7
MaxLogDay == 2

(* the moods of a day's entries, in the order they are logged in *)
DayMoods == <<"", "Bad", "Good">>

moodPlace(mood) == CHOOSE k \in 1..Len(DayMoods) : DayMoods[k] = mood

DayInputs ==
    [food : {TRUE}, name : {"Pizza"}, protein : {30}, calories : {1500},
     mood : {DayMoods[k] : k \in 1..Len(DayMoods)}, timestamp : {0}]

NextDays ==
    \/ \E entry \in DayInputs :
          /\ Len(logs) < MaxDayLogs
          /\ IF logs = <<>> THEN TRUE
             ELSE IF logs[1].timestamp < now THEN TRUE
             ELSE moodPlace(logs[1].mood) <= moodPlace(entry.mood)
          /\ AddLog(entry)
    \/ now < MaxLogDay /\ Tick
    \/ DetectTimePatterns

SpecDays == Init /\ [][NextDays]_vars

(* ---- the worst days, from the logs ---- *)

labelledOn(day) ==
    {i \in 1..Len(logs) : weekdayOf(logs[i].timestamp) = day /\ logs[i].mood # ""}

badOn(day) == {i \in labelledOn(day) : logs[i].mood \in BadMoods}

qualifyingDays ==
    {d \in {weekdayOf(logs[i].timestamp) : i \in 1..Len(logs)} :
        Cardinality(labelledOn(d)) >= 2}

(* bad/total of day d is below that of day e *)
lessBad(d, e) ==
    Cardinality(badOn(d)) * Cardinality(labelledOn(e))
        < Cardinality(badOn(e)) * Cardinality(labelledOn(d))

worstDays == ret.val.worstDays

returnedDays == {worstDays[k].day : k \in 1..Len(worstDays)}

(* C23: detectTimePatterns returns at most 2 days, each with at least 2
   logs that carry a mood, in descending order of bad/total, and no day
   with 2 such logs that it leaves out has a higher bad/total than a
   returned day *)
C23_WorstDays ==
    ret.op = "detectTimePatterns" =>
        /\ Len(worstDays) <= 2
        /\ returnedDays \subseteq qualifyingDays
        /\ \A i \in 1..Len(worstDays) : \A j \in (i + 1)..Len(worstDays) :
              ~lessBad(worstDays[i].day, worstDays[j].day)
        /\ \A d \in qualifyingDays \ returnedDays : \A e \in returnedDays :
              ~lessBad(e, d)

(* three days with 2 labelled logs each and three different ratios: the
   newest has the lowest and is left out, the oldest the highest *)
C23_Witness ==
    /\ ret.op = "detectTimePatterns"
    /\ Len(worstDays) = 2
    /\ Cardinality(qualifyingDays) = 3
    /\ worstDays[1].day = weekdayOf(0)
    /\ lessBad(worstDays[2].day, worstDays[1].day)
    /\ \E d \in qualifyingDays \ returnedDays : lessBad(d, worstDays[2].day)
    /\ \E i \in 1..Len(logs) : logs[i].mood = ""

(* ======================================================================= *)
(* AnalysisService (src/v6/js/services/analysis.js).                       *)
(*                                                                         *)
(* An analyze call runs without interruption up to an await and then       *)
(* waits; other calls run while it waits. analysis.calls[c] is the call    *)
(* c, and its pc is the await it waits at:                                 *)
(*   "ollamaImage"    line 106, Gemini on behalf of Ollama                 *)
(*   "ollama"         line 110                                             *)
(*   "ollamaFallback" line 119                                             *)
(*   "primary"        lines 139 to 143                                     *)
(*   "fallback"       lines 166 to 169                                     *)
(*   "done"           returned or thrown (threw, val)                      *)
(* by is the provider function the call waits for, hit says that it found  *)
(* its answer in the cache (cached) and makes no request, and              *)
(* originalProvider is the local of that name. before and chosen record    *)
(* this.provider and the stored choice at the start of the call, and       *)
(* primary the provider function the call went to first; met says that the *)
(* call began, or went to its fallback, while another call waited with     *)
(* this.provider switched.                                                 *)
(*                                                                         *)
(* The data of a request is its JSON text, a sequence of characters. What  *)
(* a provider answers to a request is the record [by, type, data] of the   *)
(* request it answered. A request to a provider without an API key fails.  *)
(* The clock counts minutes.                                               *)
(* ======================================================================= *)

(* ---- constants of the program ---- *)
MaxCacheSize == 50
CacheTTL == 5
KeyChars == 100

(* ---- bounds of the model ---- *)
MaxCalls == 2

Providers == {"claude", "gemini", "groq", "ollama"}

KeyedProviders == {"claude", "gemini", "groq"}

(* JSON texts: one short prompt, and two images that agree in their first
   KeyChars characters and differ in the next *)
SharedHead == [i \in 1..KeyChars |-> "x"]

ShortPrompt == <<"p">>

ImageA == SharedHead \o <<"a">>

ImageB == SharedHead \o <<"b">>

Requests ==
    {[type |-> "text", data |-> ShortPrompt],
     [type |-> "image", data |-> ImageA],
     [type |-> "image", data |-> ImageB]}

(* `${provider}_${type}_${JSON.stringify(data).substring(0, 100)}` *)
cacheKey(provider, type, data) ==
    [provider |-> provider, type |-> type,
     head |-> IF Len(data) > KeyChars THEN SubSeq(data, 1, KeyChars) ELSE data]

(* the place of the key in the cache, 0 when it has none *)
cachePlace(cache, key) ==
    IF \E i \in 1..Len(cache) : cache[i].key = key
    THEN CHOOSE i \in 1..Len(cache) : cache[i].key = key
    ELSE 0

(* _getFromCache(key): [hit, val] and the cache it leaves *)
getFromCache(cache, clock, key) ==
    LET i == cachePlace(cache, key)
    IN IF i = 0 THEN [hit |-> FALSE, val |-> <<>>, cache |-> cache]
       ELSE IF clock - cache[i].timestamp > CacheTTL
            THEN [hit |-> FALSE, val |-> <<>>,
                  cache |-> SubSeq(cache, 1, i - 1) \o SubSeq(cache, i + 1, Len(cache))]
            ELSE [hit |-> TRUE, val |-> cache[i].data, cache |-> cache]

(* _saveToCache(key, data) without the size test of lines 567-570 *)
saveUncapped(cache, clock, key, data) ==
    LET i == cachePlace(cache, key)
        entry == [key |-> key, data |-> data, timestamp |-> clock]
    IN IF i = 0 THEN Append(cache, entry) ELSE [cache EXCEPT ![i] = entry]

(* _saveToCache(key, data): Map.set keeps the place of a key it already
   has; past MaxCacheSize entries the first key goes *)
saveToCache(cache, clock, key, data) ==
    LET i == cachePlace(cache, key)
        entry == [key |-> key, data |-> data, timestamp |-> clock]
        set == IF i = 0 THEN Append(cache, entry) ELSE [cache EXCEPT ![i] = entry]
    IN IF Len(set) > MaxCacheSize THEN Tail(set) ELSE set

(* hasApiKey() *)
hasApiKey(a) == a.provider = "ollama" \/ a.provider \in a.keys

(* getAvailableProviders() *)
getAvailableProviders(a) == a.keys \cup {"ollama"}

(* the provider function that lines 137-143 and 165-169 pick *)
analyzerFor(provider) ==
    IF provider = "claude" THEN "claude"
    ELSE IF provider = "groq" THEN "groq" ELSE "gemini"

(* fallbackProvider, lines 149-155 *)
fallbackFor(provider) ==
    IF provider = "groq" THEN "gemini"
    ELSE IF provider = "claude" THEN "gemini" ELSE "groq"

(* call c enters the provider function by: it looks its key up (Ollama has
   no cache) and waits at pc for the cached answer or for the network *)
request(a, c, by, pc) ==
    LET call == a.calls[c]
        got == IF by = "ollama" THEN [hit |-> FALSE, val |-> <<>>, cache |-> a.cache]
               ELSE getFromCache(a.cache, a.clock, cacheKey(by, call.type, call.data))
    IN [a EXCEPT !.cache = got.cache,
                 !.calls[c] = [call EXCEPT !.pc = pc, !.by = by, !.hit = got.hit,
                                           !.cached = got.val,
                                           !.primary = IF @ = "" THEN by ELSE @]]

(* this.provider = provider; call c then enters Gemini or the fallback *)
switched(a, c, provider, pc) ==
    request([a EXCEPT !.provider = provider, !.calls[c].originalProvider = a.provider],
            c, analyzerFor(provider), pc)

(* call c returns val or throws *)
finished(a, c, threw, val) ==
    [a EXCEPT !.calls[c] = [@ EXCEPT !.pc = "done", !.threw = threw, !.val = val]]

(* this.provider = originalProvider, lines 107, 120, 123, 171, 174 *)
restored(a, c) == [a EXCEPT !.provider = a.calls[c].originalProvider]

newCall(a, req, allowFallback) ==
    [type |-> req.type, data |-> req.data, allowFallback |-> allowFallback,
     pc |-> "start", by |-> "", hit |-> FALSE, cached |-> <<>>,
     originalProvider |-> "", before |-> a.provider, chosen |-> a.stored,
     primary |-> "", met |-> FALSE, threw |-> FALSE, val |-> <<>>]

(* what the call c leaves as the result of analyze *)
resultOf(a, c) ==
    IF a.calls[c].pc = "done"
    THEN [op |-> "analyze", call |-> c, threw |-> a.calls[c].threw,
          val |-> a.calls[c].val]
    ELSE NoResult

(* analyze(type, data, options) up to its first await, lines 97-143 *)
started(a, c) ==
    IF a.provider = "ollama"
    THEN IF a.calls[c].type = "image"
         THEN switched(a, c, "gemini", "ollamaImage")
         ELSE request(a, c, "ollama", "ollama")
    ELSE IF ~hasApiKey(a)
         THEN finished(a, c, TRUE, <<>>)
         ELSE request(a, c, analyzerFor(a.provider), "primary")

(* the catch block of the Ollama branch, lines 111-128 *)
ollamaFailed(a, c) ==
    IF "gemini" \in a.keys
    THEN switched(a, c, "gemini", "ollamaFallback")
    ELSE finished(a, c, TRUE, <<>>)

(* the catch block of lines 145-180 *)
primaryFailed(a, c) ==
    IF fallbackFor(a.provider) \in getAvailableProviders(a) /\ a.calls[c].allowFallback
    THEN switched(a, c, fallbackFor(a.provider), "fallback")
    ELSE finished(a, c, TRUE, <<>>)

(* the provider function of call c ends: a cached answer is returned as it
   is, a fresh one is saved under the key of the request *)
answered(a, c, ok) ==
    LET call == a.calls[c]
        key == cacheKey(call.by, call.type, call.data)
        answer == [by |-> call.by, type |-> call.type, data |-> call.data]
    IN IF call.hit THEN [a |-> a, val |-> call.cached]
       ELSE IF ok /\ call.by # "ollama"
            THEN [a |-> [a EXCEPT !.cache = saveToCache(a.cache, a.clock, key, answer)],
                  val |-> answer]
            ELSE [a |-> a, val |-> answer]

(* analyze(type, data, options) from the await of call c on *)
resumed(a, c, ok, val) ==
    LET pc == a.calls[c].pc
    IN IF pc = "primary"
       THEN IF ok THEN finished(a, c, FALSE, val) ELSE primaryFailed(a, c)
       ELSE IF pc = "ollama"
       THEN IF ok THEN finished(a, c, FALSE, val) ELSE ollamaFailed(a, c)
       ELSE IF pc = "ollamaImage"
       THEN IF ok THEN finished(restored(a, c), c, FALSE, val) ELSE ollamaFailed(a, c)
       ELSE finished(restored(a, c), c, ~ok, IF ok THEN val ELSE <<>>)

waiting(c) == analysis.calls[c].pc \notin {"start", "done"}

(* call c waits between a switch of this.provider and its restore *)
switching(c) == analysis.calls[c].pc \in {"ollamaImage", "ollamaFallback", "fallback"}

(* call c, having begun or gone to its fallback, notes whether another call
   had this.provider switched at that time *)
meeting(a, c) ==
    IF /\ \E d \in 1..Len(analysis.calls) : d # c /\ switching(d)
       /\ a.calls[c].pc \in {"ollamaImage", "ollama", "primary", "ollamaFallback", "fallback"}
       /\ (c > Len(analysis.calls) \/ a.calls[c].pc \in {"ollamaFallback", "fallback"})
    THEN [a EXCEPT !.calls[c].met = TRUE]
    ELSE a

(* setProvider(provider) *)
SetProvider(provider) ==
    /\ analysis' = [analysis EXCEPT !.provider = provider, !.stored = provider]
    /\ ret' = NoResult
    /\ UNCHANGED <<logs, now, patterns, insights, symptoms, goalsService, achievementsService>>

(* a call of analyze(type, data, options) *)
Analyze(req, allowFallback) ==
    LET c == Len(analysis.calls) + 1
        a == meeting(started([analysis EXCEPT !.calls = Append(@, newCall(analysis, req, allowFallback))], c), c)
    IN /\ c <= MaxCalls
       /\ analysis' = a
       /\ ret' = resultOf(a, c)
       /\ UNCHANGED <<logs, now, patterns, insights, symptoms, goalsService, achievementsService>>

(* the provider function that call c waits for returns (ok) or throws *)
Respond(c, ok) ==
    LET call == analysis.calls[c]
        done == answered(analysis, c, ok)
        a == meeting(resumed(done.a, c, ok, done.val), c)
    IN /\ waiting(c)
       /\ call.hit => ok
       /\ (ok /\ ~call.hit) => (call.by = "ollama" \/ call.by \in analysis.keys)
       /\ analysis' = a
       /\ ret' = resultOf(a, c)
       /\ UNCHANGED <<logs, now, patterns, insights, symptoms, goalsService, achievementsService>>

(* ---- one analyze call at a time ---- *)
InitAnalyze ==
    /\ logs = <<>>
    /\ now = 0
    /\ patterns = EmptyPatterns
    /\ insights = <<>>
    /\ symptoms = <<>>
    /\ analysis \in {NewAnalysisService(p, k) : p \in Providers, k \in SUBSET KeyedProviders}
    /\ goalsService = NewGoalsService(<<>>)
    /\ achievementsService = NewAchievementsService(<<>>)
    /\ ret = NoResult

NextAnalyze ==
    \/ \E req \in Requests, allowFallback \in BOOLEAN :
          /\ \A c \in 1..Len(analysis.calls) : ~waiting(c)
          /\ Analyze(req, allowFallback)
    \/ \E c \in 1..Len(analysis.calls), ok \in BOOLEAN : Respond(c, ok)

SpecAnalyze == InitAnalyze /\ [][NextAnalyze]_vars

(* the call that has just returned or thrown *)
lastCall == analysis.calls[ret.call]

(* C24: when a single analyze call, not overlapping any other, returns or
   throws, this.provider is what it was when the call began *)
C24_ProviderRestored ==
    ret.op = "analyze" => analysis.provider = lastCall.before

(* Ollama was selected, the image went to Gemini, Gemini failed, and the
   provider is left as gemini *)
C24_Witness ==
    /\ ret.op = "analyze"
    /\ lastCall.before = "ollama"
    /\ lastCall.type = "image"
    /\ ret.threw
    /\ analysis.provider = "gemini"

(* ---- analyze calls that overlap ---- *)
NextOverlap ==
    \/ \E req \in Requests, allowFallback \in BOOLEAN : Analyze(req, allowFallback)
    \/ \E c \in 1..Len(analysis.calls), ok \in BOOLEAN : Respond(c, ok)
    \/ \E provider \in Providers :
          /\ \A c \in 1..Len(analysis.calls) : ~waiting(c)
          /\ SetProvider(provider)

SpecOverlap == InitAnalyze /\ [][NextOverlap]_vars

(* the provider function that a call goes to first when this.provider is
   the selected provider *)
primaryOf(selected, type) ==
    IF selected = "ollama" THEN IF type = "image" THEN "gemini" ELSE "ollama"
    ELSE analyzerFor(selected)

(* two calls, one of which met the other's switched provider *)
overlapped ==
    /\ Len(analysis.calls) = 2
    /\ \E c \in 1..2 : analysis.calls[c].met

(* C25: when two analyze calls overlap, each goes first to the provider the
   user selected, and once both have ended this.provider is the provider
   that setProvider stored last *)
C25_Overlap ==
    overlapped =>
        /\ \A c \in 1..2 :
              analysis.calls[c].primary # ""
                  => analysis.calls[c].primary
                        = primaryOf(analysis.calls[c].chosen, analysis.calls[c].type)
        /\ (\A c \in 1..2 : analysis.calls[c].pc = "done")
              => analysis.provider = analysis.stored

(* Claude is selected and all keys are set; the second call began while
   the first waited for its Gemini fallback, went to Gemini first, and
   the provider is left as gemini *)
C25_Witness ==
    /\ overlapped
    /\ analysis.calls[1].chosen = "claude"
    /\ analysis.calls[1].primary = "claude"
    /\ analysis.calls[2].chosen = "claude"
    /\ analysis.calls[2].primary = "gemini"
    /\ \A c \in 1..2 : analysis.calls[c].pc = "done"
    /\ analysis.stored = "claude"
    /\ analysis.provider = "gemini"

(* ---- the response cache on its own ---- *)
(* Keys are numbered: a save takes the key after the last one of the cache,
   or again the first or the last key; a lookup takes the first or the last
   key, or key 0, which is never saved. What is saved is an answer whose
   text is the minute of the save. Until the cache is nearly full it is only
   filled. *)
MaxCacheClock == 6
MaxCacheKey == 52

numbered(n) == cacheKey("gemini", "text", <<n>>)

lastNumber(cache) == IF cache = <<>> THEN 0 ELSE cache[Len(cache)].key.head[1]

knownKeys(cache) ==
    IF cache = <<>> THEN {} ELSE {cache[1].key, cache[Len(cache)].key}

(* the cache is nearly full *)
busy == Len(analysis.cache) >= MaxCacheSize - 1

(* _saveToCache(key, data) *)
SaveToCache(key) ==
    /\ analysis' = [analysis EXCEPT !.cache =
           saveToCache(analysis.cache, analysis.clock, key,
                       [by |-> key.provider, type |-> key.type, data |-> <<analysis.clock>>])]
    /\ ret' = [op |-> "_saveToCache", arg |-> key, val |-> <<>>]
    /\ UNCHANGED <<logs, now, patterns, insights, symptoms, goalsService, achievementsService>>

(* _getFromCache(key) *)
GetFromCache(key) ==
    LET got == getFromCache(analysis.cache, analysis.clock, key)
    IN /\ analysis' = [analysis EXCEPT !.cache = got.cache]
       /\ ret' = [op |-> "_getFromCache", arg |-> key, hit |-> got.hit, val |-> got.val]
       /\ UNCHANGED <<logs, now, patterns, insights, symptoms, goalsService, achievementsService>>

(* a minute passes *)
CacheTick ==
    /\ analysis.clock < MaxCacheClock
    /\ analysis' = [analysis EXCEPT !.clock = @ + 1]
    /\ ret' = NoResult
    /\ UNCHANGED <<logs, now, patterns, insights, symptoms, goalsService, achievementsService>>

NextCache ==
    \/ /\ lastNumber(analysis.cache) < MaxCacheKey
       /\ SaveToCache(numbered(lastNumber(analysis.cache) + 1))
    \/ \E key \in knownKeys(analysis.cache) : busy /\ SaveToCache(key)
    \/ \E key \in knownKeys(analysis.cache) \cup {numbered(0)} : busy /\ GetFromCache(key)
    \/ busy /\ CacheTick

SpecCache == Init /\ [][NextCache]_vars

keysOf(cache) == [i \in 1..Len(cache) |-> cache[i].key]

(* C26: the cache never holds more than 50 entries; a save of a new key
   into a full cache drops the first key and appends the new one; a lookup
   returns nothing that was saved more than 5 minutes earlier, and after a
   lookup that returns nothing the key has no entry *)
C26_Cache ==
    /\ [](/\ Len(analysis.cache) <= MaxCacheSize
          /\ ret.op = "_getFromCache" =>
                IF ret.hit
                THEN analysis.clock - ret.val.data[1] <= CacheTTL
                ELSE cachePlace(analysis.cache, ret.arg) = 0)
    /\ [][(/\ ret'.op = "_saveToCache"
           /\ Len(analysis.cache) = MaxCacheSize
           /\ cachePlace(analysis.cache, ret'.arg) = 0)
             => keysOf(analysis'.cache) = Tail(keysOf(analysis.cache)) \o <<ret'.arg>>]_vars

(* key 1 was evicted by the 51st save, and key 2, then the oldest, expired
   and was removed by its lookup *)
C26_Witness ==
    /\ ret.op = "_getFromCache"
    /\ ret.arg = numbered(2)
    /\ ~ret.hit
    /\ Len(analysis.cache) = MaxCacheSize - 1
    /\ analysis.cache[1].key = numbered(3)
    /\ lastNumber(analysis.cache) = MaxCacheSize + 1

(* C27: a provider function returns a cached result, making no request,
   only if what the cache gave it is the answer that the same provider
   gave earlier to a request of the same type and the same data *)
C27_CachedForSameRequest ==
    \A c \in 1..Len(analysis.calls) :
        analysis.calls[c].hit =>
            analysis.calls[c].cached =
                [by |-> analysis.calls[c].by, type |-> analysis.calls[c].type,
                 data |-> analysis.calls[c].data]

(* the second image got the answer that Gemini gave to the first *)
C27_Witness ==
    /\ ret.op = "analyze"
    /\ ret.call = 2
    /\ ~ret.threw
    /\ analysis.calls[1].data = ImageA
    /\ analysis.calls[2].data = ImageB
    /\ analysis.calls[2].hit
    /\ ret.val = [by |-> "gemini", type |-> "image", data |-> ImageA]

(* ======================================================================= *)
(* GoalsService (src/v6/js/services/goals.js 6-119) over the stored list   *)
(* nutrimood_goals (StorageService.getGoals, saveGoals).                   *)
(*                                                                         *)
(* A goal is [id, type, target, current, deadline, status]; the deadline   *)
(* is a day, Null when the goal has none. goalsService.goals is            *)
(* this.goals, stored the list in localStorage, loading says that the      *)
(* loadGoals of the constructor still waits at its await, loaded is the    *)
(* list it read, and created counts the goals made, which numbers their    *)
(* ids. saveGoals writes to localStorage before the await on it yields,    *)
(* so createGoal and updateProgress change memory and storage in one step. *)
(* ======================================================================= *)
MaxGoals == 2
MaxGoalDay == 2

(* a goal that was stored by an earlier session *)
StoredGoal ==
    [id |-> 0, type |-> "streak", target |-> 2, current |-> 0,
     deadline |-> Null, status |-> "active"]

GoalInputs == [type : {"streak", "custom"}, target : {2}, deadline : {Null, 1}]

StatsInputs == [currentStreak : {0, 2}]

(* the goal after updateProgress(goal.id, progress), lines 55-66 *)
progressed(goal, progress) ==
    LET set == [goal EXCEPT !.current = progress,
                            !.status = IF progress >= goal.target THEN "completed" ELSE @]
    IN IF set.deadline # Null /\ set.deadline < now /\ set.status = "active"
       THEN [set EXCEPT !.status = "failed"]
       ELSE set

(* the switch of checkGoals, lines 86-100 *)
progressOf(goal, stats) ==
    IF goal.type = "streak" THEN stats.currentStreak ELSE 0

goalPlace(goals, goalId) ==
    IF \E i \in 1..Len(goals) : goals[i].id = goalId
    THEN CHOOSE i \in 1..Len(goals) : goals[i].id = goalId
    ELSE 0

(* loadGoals after its await: this.goals = the list that was read *)
LoadGoals ==
    /\ goalsService.loading
    /\ goalsService' = [goalsService EXCEPT !.goals = goalsService.loaded, !.loading = FALSE]
    /\ ret' = NoResult
    /\ UNCHANGED <<logs, now, patterns, insights, symptoms, analysis, achievementsService>>

(* createGoal(type, target, deadline) *)
CreateGoal(input) ==
    LET goal == [id |-> goalsService.created + 1, type |-> input.type,
                 target |-> input.target, current |-> 0,
                 deadline |-> input.deadline, status |-> "active"]
        goals == Append(goalsService.goals, goal)
    IN /\ goalsService.created < MaxGoals
       /\ goalsService' = [goalsService EXCEPT !.goals = goals, !.stored = goals,
                                               !.created = @ + 1]
       /\ ret' = [op |-> "createGoal", val |-> goal]
       /\ UNCHANGED <<logs, now, patterns, insights, symptoms, analysis, achievementsService>>

(* updateProgress(goalId, progress) *)
UpdateProgress(goalId, progress) ==
    LET i == goalPlace(goalsService.goals, goalId)
        goals == [goalsService.goals EXCEPT ![i] = progressed(@, progress)]
    IN /\ goalsService' = IF i = 0 THEN goalsService
                          ELSE [goalsService EXCEPT !.goals = goals, !.stored = goals]
       /\ ret' = [op |-> "updateProgress", arg |-> goalId,
                  val |-> IF i = 0 THEN <<>> ELSE <<goals[i]>>]
       /\ UNCHANGED <<logs, now, patterns, insights, symptoms, analysis, achievementsService>>

(* checkGoals(stats): updateProgress for each active goal *)
CheckGoals(stats) ==
    LET old == goalsService.goals
        goals == [i \in 1..Len(old) |->
                     IF old[i].status = "active"
                     THEN progressed(old[i], progressOf(old[i], stats))
                     ELSE old[i]]
    IN /\ goalsService' =
              IF \E i \in 1..Len(old) : old[i].status = "active"
              THEN [goalsService EXCEPT !.goals = goals, !.stored = goals]
              ELSE goalsService
       /\ ret' = [op |-> "checkGoals", arg |-> stats, val |-> <<>>]
       /\ UNCHANGED <<logs, now, patterns, insights, symptoms, analysis, achievementsService>>

InitGoals ==
    /\ logs = <<>>
    /\ now = 0
    /\ patterns = EmptyPatterns
    /\ insights = <<>>
    /\ symptoms = <<>>
    /\ analysis = NewAnalysisService("groq", {})
    /\ goalsService \in {NewGoalsService(<<>>), NewGoalsService(<<StoredGoal>>)}
    /\ achievementsService = NewAchievementsService(<<>>)
    /\ ret = NoResult

NextGoals ==
    \/ LoadGoals
    \/ \E input \in GoalInputs : CreateGoal(input)
    \/ \E goalId \in 0..goalsService.created, progress \in {0, 2} :
          UpdateProgress(goalId, progress)
    \/ \E stats \in StatsInputs : CheckGoals(stats)
    \/ now < MaxGoalDay /\ Tick

SpecGoals == InitGoals /\ [][NextGoals]_vars

(* a goal of this.goals before a step and the same goal after it *)
sameGoal(i, j) == goalsService.goals[i].id = goalsService'.goals[j].id

(* C28: the status of a goal changes only from active to completed, with
   current >= target, or from active to failed, with the deadline passed;
   checkGoals leaves every goal that is not active as it is *)
C28_StatusMoves ==
    [][\A i \in 1..Len(goalsService.goals), j \in 1..Len(goalsService'.goals) :
          sameGoal(i, j) =>
              LET before == goalsService.goals[i]
                  after == goalsService'.goals[j]
              IN /\ \/ after.status = before.status
                    \/ /\ before.status = "active"
                       /\ after.status = "completed"
                       /\ after.current >= after.target
                    \/ /\ before.status = "active"
                       /\ after.status = "failed"
                       /\ after.deadline # Null
                       /\ after.deadline < now
                 /\ (ret'.op = "checkGoals" /\ before.status # "active")
                       => after = before]_vars

idsOf(goals) == {goals[i].id : i \in 1..Len(goals)}

(* the goals that must be there: those read by the constructor's loadGoals
   and those that createGoal made *)
expectedGoals == idsOf(goalsService.loaded) \cup 1..goalsService.created

(* C29: once the loadGoals of the constructor and a createGoal have both
   finished, in either order, this.goals and the stored list both hold the
   created goal and every goal that was stored before *)
C29_LoadAndCreate ==
    (~goalsService.loading /\ goalsService.created >= 1) =>
        /\ expectedGoals \subseteq idsOf(goalsService.goals)
        /\ expectedGoals \subseteq idsOf(goalsService.stored)

(* createGoal ran while loadGoals waited: the stored goal is gone from
   storage and the created goal is gone from memory *)
C29_Witness ==
    /\ ~goalsService.loading
    /\ goalsService.created = 1
    /\ idsOf(goalsService.loaded) = {0}
    /\ idsOf(goalsService.goals) = {0}
    /\ idsOf(goalsService.stored) = {1}

(* ======================================================================= *)
(* AchievementsService (src/unnamed/part_004) over the stored list         *)
(* nutrimood_achievements.                                                 *)
(*                                                                         *)
(* achievementsService.unlockedAchievements is the list of that name,      *)
(* stored the list in localStorage, loading says that the loadUnlocked of  *)
(* the constructor still waits at its await and loaded is the list it      *)
(* read. calls[c] is the checkAchievements call c: its stats, the place at *)
(* of the achievement whose unlockAchievement it awaits, its newlyUnlocked *)
(* and whether it has returned (done). unlockAchievement pushes and saves  *)
(* before its await yields.                                                *)
(* ======================================================================= *)
MaxChecks == 2

(* defineAchievements(): id and requirement *)
Achievements ==
    <<[id |-> "first_step", type |-> "streak", value |-> 1],
      [id |-> "getting_started", type |-> "streak", value |-> 3],
      [id |-> "week_warrior", type |-> "streak", value |-> 7],
      [id |-> "month_master", type |-> "streak", value |-> 30],
      [id |-> "unstoppable", type |-> "streak", value |-> 100],
      [id |-> "beginner", type |-> "logs", value |-> 10],
      [id |-> "dedicated", type |-> "logs", value |-> 50],
      [id |-> "expert", type |-> "logs", value |-> 100],
      [id |-> "master", type |-> "logs", value |-> 500],
      [id |-> "mood_tracker", type |-> "moods", value |-> 10],
      [id |-> "happiness_hunter", type |-> "good_streak", value |-> 7],
      [id |-> "mood_master", type |-> "all_moods", value |-> 5],
      [id |-> "food_explorer", type |-> "unique_foods", value |-> 20],
      [id |-> "variety_seeker", type |-> "unique_foods", value |-> 50],
      [id |-> "culinary_master", type |-> "unique_foods", value |-> 100],
      [id |-> "goal_setter", type |-> "goals_set", value |-> 1],
      [id |-> "achiever", type |-> "goals_completed", value |-> 1],
      [id |-> "overachiever", type |-> "goals_completed", value |-> 5],
      [id |-> "goal_master", type |-> "goals_completed", value |-> 20]>>

AchievementStats ==
    [currentStreak : {0, 3}, totalLogs : {0, 10}, totalMoods : {0},
     goodMoodStreak : {0}, uniqueMoods : {0}, uniqueFoods : {0},
     goalsSet : {1}, goalsCompleted : {0}]

(* checkRequirement(requirement, stats) *)
checkRequirement(requirement, stats) ==
    IF requirement.type = "streak" THEN stats.currentStreak >= requirement.value
    ELSE IF requirement.type = "logs" THEN stats.totalLogs >= requirement.value
    ELSE IF requirement.type = "moods" THEN stats.totalMoods >= requirement.value
    ELSE IF requirement.type = "good_streak" THEN stats.goodMoodStreak >= requirement.value
    ELSE IF requirement.type = "all_moods" THEN stats.uniqueMoods >= requirement.value
    ELSE IF requirement.type = "unique_foods" THEN stats.uniqueFoods >= requirement.value
    ELSE IF requirement.type = "goals_set" THEN stats.goalsSet >= requirement.value
    ELSE IF requirement.type = "goals_completed" THEN stats.goalsCompleted >= requirement.value
    ELSE FALSE

(* isUnlocked(achievementId) *)
isUnlocked(unlocked, achievementId) ==
    \E i \in 1..Len(unlocked) : unlocked[i].id = achievementId

(* unlockAchievement(achievementId) up to its await *)
unlocking(s, achievementId) ==
    IF isUnlocked(s.unlockedAchievements, achievementId) THEN s
    ELSE LET unlocked == Append(s.unlockedAchievements,
                                [id |-> achievementId, unlockedAt |-> now])
         IN [s EXCEPT !.unlockedAchievements = unlocked, !.stored = unlocked]

(* the places from `from` on whose achievement the loop of call c would unlock *)
due(s, c, from) ==
    {i \in from..Len(Achievements) :
        /\ ~isUnlocked(s.unlockedAchievements, Achievements[i].id)
        /\ checkRequirement(Achievements[i], s.calls[c].stats)}

(* the loop of checkAchievements from place `from` up to the next await,
   or to the return *)
checking(s, c, from) ==
    LET places == due(s, c, from)
        next == CHOOSE i \in places : \A j \in places : i <= j
    IN IF places = {} THEN [s EXCEPT !.calls[c].done = TRUE]
       ELSE [unlocking(s, Achievements[next].id) EXCEPT !.calls[c].at = next]

(* what the call c has returned *)
checked(s, c) ==
    IF s.calls[c].done
    THEN [op |-> "checkAchievements", call |-> c, val |-> s.calls[c].newlyUnlocked]
    ELSE NoResult

(* loadUnlocked after its await *)
LoadUnlocked ==
    /\ achievementsService.loading
    /\ achievementsService' = [achievementsService EXCEPT
           !.unlockedAchievements = achievementsService.loaded, !.loading = FALSE]
    /\ ret' = NoResult
    /\ UNCHANGED <<logs, now, patterns, insights, symptoms, analysis, goalsService>>

(* a call of checkAchievements(stats), up to its first await or its return *)
CheckAchievements(stats) ==
    LET c == Len(achievementsService.calls) + 1
        call == [stats |-> stats, at |-> 0, newlyUnlocked |-> <<>>, done |-> FALSE]
        s == checking([achievementsService EXCEPT !.calls = Append(@, call)], c, 1)
    IN /\ c <= MaxChecks
       /\ achievementsService' = s
       /\ ret' = checked(s, c)
       /\ UNCHANGED <<logs, now, patterns, insights, symptoms, analysis, goalsService>>

(* the unlockAchievement that call c awaits has ended: the achievement
   joins newlyUnlocked and the loop goes on *)
CheckResume(c) ==
    LET call == achievementsService.calls[c]
        s == checking([achievementsService EXCEPT
                          !.calls[c].newlyUnlocked = Append(@, Achievements[call.at].id)],
                      c, call.at + 1)
    IN /\ ~call.done
       /\ achievementsService' = s
       /\ ret' = checked(s, c)
       /\ UNCHANGED <<logs, now, patterns, insights, symptoms, analysis, goalsService>>

(* a call of unlockAchievement(achievementId) *)
UnlockAchievement(achievementId) ==
    /\ achievementsService' = unlocking(achievementsService, achievementId)
    /\ ret' = [op |-> "unlockAchievement", arg |-> achievementId, val |-> <<>>]
    /\ UNCHANGED <<logs, now, patterns, insights, symptoms, analysis, goalsService>>

InitAchievements ==
    /\ logs = <<>>
    /\ now = 0
    /\ patterns = EmptyPatterns
    /\ insights = <<>>
    /\ symptoms = <<>>
    /\ analysis = NewAnalysisService("groq", {})
    /\ goalsService = NewGoalsService(<<>>)
    /\ achievementsService \in
          {NewAchievementsService(<<>>),
           NewAchievementsService(<<[id |-> "beginner", unlockedAt |-> 0]>>)}
    /\ ret = NoResult

NextAchievements ==
    \/ LoadUnlocked
    \/ \E stats \in AchievementStats : CheckAchievements(stats)
    \/ \E c \in 1..Len(achievementsService.calls) : CheckResume(c)
    \/ \E achievementId \in {"first_step", "goal_setter"} : UnlockAchievement(achievementId)

SpecAchievements == InitAchievements /\ [][NextAchievements]_vars

unlockedIds(s) == {s.unlockedAchievements[i].id : i \in 1..Len(s.unlockedAchievements)}

(* C30: unlockedAchievements holds no id twice, no checkAchievements call
   returns an achievement that it or another call also returns, and an
   achievement that is unlocked stays so *)
C30_UnlockedOnce ==
    /\ [](/\ \A i, j \in 1..Len(achievementsService.unlockedAchievements) :
                achievementsService.unlockedAchievements[i].id
                    = achievementsService.unlockedAchievements[j].id => i = j
          /\ \A c, d \in 1..Len(achievementsService.calls) :
                \A i \in 1..Len(achievementsService.calls[c].newlyUnlocked),
                   j \in 1..Len(achievementsService.calls[d].newlyUnlocked) :
                    achievementsService.calls[c].newlyUnlocked[i]
                        = achievementsService.calls[d].newlyUnlocked[j]
                        => (c = d /\ i = j))
    /\ [][unlockedIds(achievementsService) \subseteq unlockedIds(achievementsService')]_vars

====
